---- MODULE Spec2Model ----
(***************************************************************************)
(* A model of the HR dashboard's data pipeline (analisis_hr.py):           *)
(* column-name standardization, the enrichment done by load_hr_data, and   *)
(* the reporting functions that work on the enriched table.                *)
(*                                                                         *)
(* Text.  A Python str is a sequence of characters; a character is a       *)
(* one-token TLA+ string.  ASCII characters stand for themselves.  A       *)
(* precomposed accented letter is written as its base letter followed by   *)
(* an ASCII picture of the accent ("e'" is U+00E9, "n~" is U+00F1, "u:" is *)
(* U+00FC); the combining marks themselves (category Mn) are "'", "~" and  *)
(* ":" (U+0301, U+0303, U+0308).                                           *)
(*                                                                         *)
(* Cells.  A cell of a DataFrame is a record [k, n, d, s]: a number n/d    *)
(* (k = "num", kept in lowest terms, d > 0), a str s (k = "str"), a        *)
(* timestamp (k = "date", n = yyyymmdd) or a missing value (k = "null":    *)
(* NaN, None and NaT alike).  Floating point results are modelled by the   *)
(* exact quotient.                                                         *)
(*                                                                         *)
(* Tables.  A DataFrame is [none |-> FALSE, cols |-> <<column, ...>>] with *)
(* column = [name |-> str, vals |-> <<cell, ...>>]; Python's None is       *)
(* NoneDf.                                                                 *)
(***************************************************************************)
EXTENDS Integers, Sequences, FiniteSets, TLC

VARIABLES file_name, raw, df, pc, salary, attendance, synonyms, filtered, screen,
          figure, agg_df, view

vars ==
  <<file_name, raw, df, pc, salary, attendance, synonyms, filtered, screen, figure,
    agg_df, view>>

(***************************************************************************)
(* Bounds of the model.                                                    *)
(***************************************************************************)
MaxRows == 3

MaxCols == 3

(***************************************************************************)
(* Characters: str.lower(), str.strip(), unicodedata.normalize('NFD', .)   *)
(* and unicodedata.category(.) on the characters of the model.             *)
(***************************************************************************)
UpperAscii == <<"A","B","C","D","E","F","G","H","I","J","K","L","M",
                "N","O","P","Q","R","S","T","U","V","W","X","Y","Z">>

LowerAscii == <<"a","b","c","d","e","f","g","h","i","j","k","l","m",
                "n","o","p","q","r","s","t","u","v","w","x","y","z">>

\* The precomposed letters: the character, its lower case, and its canonical
\* decomposition (base letter, combining mark).
Precomposed ==
  << [ch |-> "a'", lower |-> "a'", base |-> "a", mark |-> "'"],
     [ch |-> "e'", lower |-> "e'", base |-> "e", mark |-> "'"],
     [ch |-> "i'", lower |-> "i'", base |-> "i", mark |-> "'"],
     [ch |-> "o'", lower |-> "o'", base |-> "o", mark |-> "'"],
     [ch |-> "u'", lower |-> "u'", base |-> "u", mark |-> "'"],
     [ch |-> "n~", lower |-> "n~", base |-> "n", mark |-> "~"],
     [ch |-> "u:", lower |-> "u:", base |-> "u", mark |-> ":"],
     [ch |-> "A'", lower |-> "a'", base |-> "A", mark |-> "'"],
     [ch |-> "E'", lower |-> "e'", base |-> "E", mark |-> "'"],
     [ch |-> "I'", lower |-> "i'", base |-> "I", mark |-> "'"],
     [ch |-> "O'", lower |-> "o'", base |-> "O", mark |-> "'"],
     [ch |-> "U'", lower |-> "u'", base |-> "U", mark |-> "'"],
     [ch |-> "N~", lower |-> "n~", base |-> "N", mark |-> "~"],
     [ch |-> "U:", lower |-> "u:", base |-> "U", mark |-> ":"] >>

CombiningMarks == {"'", "~", ":"}

Whitespace == {" "}

IsMn(c) == c \in CombiningMarks

LowerChar(c) ==
  IF \E i \in 1..Len(UpperAscii) : UpperAscii[i] = c
    THEN LowerAscii[CHOOSE i \in 1..Len(UpperAscii) : UpperAscii[i] = c]
    ELSE IF \E i \in 1..Len(Precomposed) : Precomposed[i].ch = c
      THEN Precomposed[CHOOSE i \in 1..Len(Precomposed) : Precomposed[i].ch = c].lower
      ELSE c

NFDChar(c) ==
  IF \E i \in 1..Len(Precomposed) : Precomposed[i].ch = c
    THEN LET p == Precomposed[CHOOSE i \in 1..Len(Precomposed) : Precomposed[i].ch = c]
         IN  <<p.base, p.mark>>
    ELSE <<c>>

RECURSIVE Flatten(_)
Flatten(ss) == IF ss = <<>> THEN <<>> ELSE Head(ss) \o Flatten(Tail(ss))

\* the characters of the model
Alphabet ==
  {UpperAscii[i] : i \in 1..Len(UpperAscii)} \cup {LowerAscii[i] : i \in 1..Len(LowerAscii)}
    \cup {Precomposed[i].ch : i \in 1..Len(Precomposed)} \cup CombiningMarks \cup Whitespace
    \cup {"0","1","2","3","4","5","6","7","8","9","/",".","_","-","+","<"}

lower == [c \in Alphabet |-> LowerChar(c)]

decomposition == [c \in Alphabet |-> NFDChar(c)]

StrLower(s) == [i \in 1..Len(s) |-> lower[s[i]]]

RECURSIVE LStrip(_)
LStrip(s) == IF s # <<>> /\ Head(s) \in Whitespace THEN LStrip(Tail(s)) ELSE s

RECURSIVE RStrip(_)
RStrip(s) ==
  IF s # <<>> /\ s[Len(s)] \in Whitespace THEN RStrip(SubSeq(s, 1, Len(s) - 1)) ELSE s

StrStrip(s) == RStrip(LStrip(s))

NFD(s) == Flatten([i \in 1..Len(s) |-> decomposition[s[i]]])

NotMn(c) == ~IsMn(c)

\* normalize_string without the lower-casing
normalize_string_nolower(s) == SelectSeq(NFD(StrStrip(s)), NotMn)

\* normalize_string that keeps the first five characters only
normalize_string_truncated(s) ==
  LET t == SelectSeq(NFD(StrStrip(StrLower(s))), NotMn)
  IN  SubSeq(t, 1, IF Len(t) < 5 THEN Len(t) ELSE 5)

\* s.lower().strip(), then the NFD characters that are not combining marks
normalize_string(s) == SelectSeq(NFD(StrStrip(StrLower(s))), NotMn)

EndsWith(s, suffix) ==
  /\ Len(suffix) <= Len(s)
  /\ SubSeq(s, Len(s) - Len(suffix) + 1, Len(s)) = suffix

(***************************************************************************)
(* The canonical attributes and their synonyms, in declaration order.      *)
(***************************************************************************)
C_ContractID == <<"C","o","n","t","r","a","c","t","I","D">>

C_NationalID == <<"N","a","t","i","o","n","a","l","I","D">>

C_FullName == <<"F","u","l","l","N","a","m","e">>

C_JobRole == <<"J","o","b","R","o","l","e">>

C_ContractType == <<"C","o","n","t","r","a","c","t","T","y","p","e">>

C_Department == <<"D","e","p","a","r","t","m","e","n","t">>

C_BirthDate == <<"B","i","r","t","h","D","a","t","e">>

C_Age == <<"A","g","e">>

C_Gender == <<"G","e","n","d","e","r">>

C_ContractStartDate == <<"C","o","n","t","r","a","c","t","S","t","a","r","t","D","a","t","e">>

C_ContractEndDate == <<"C","o","n","t","r","a","c","t","E","n","d","D","a","t","e">>

C_TenureMonths == <<"T","e","n","u","r","e","M","o","n","t","h","s">>

C_Nationality == <<"N","a","t","i","o","n","a","l","i","t","y">>

C_RegularLeaveDays == <<"R","e","g","u","l","a","r","L","e","a","v","e","D","a","y","s">>

C_MaternityLeaveDays == <<"M","a","t","e","r","n","i","t","y","L","e","a","v","e","D","a","y","s">>

C_SickLeaveDays == <<"S","i","c","k","L","e","a","v","e","D","a","y","s">>

C_PermissionDays == <<"P","e","r","m","i","s","s","i","o","n","D","a","y","s">>

C_AbsenceDays == <<"A","b","s","e","n","c","e","D","a","y","s">>

C_BaseSalary == <<"B","a","s","e","S","a","l","a","r","y">>

C_DaysWorked == <<"D","a","y","s","W","o","r","k","e","d">>

STANDARD_COLUMN_SYNONYMS ==
  <<
    [standard |-> C_ContractID, synonyms |-> <<
        <<"c","o","n","t","r","a","t","o">>>>],
    [standard |-> C_NationalID, synonyms |-> <<
        <<"r","u","t">>>>],
    [standard |-> C_FullName, synonyms |-> <<
        <<"n","o","m","b","r","e"," ","c","o","m","p","l","e","t","o">>>>],
    [standard |-> C_JobRole, synonyms |-> <<
        <<"c","a","r","g","o">>>>],
    [standard |-> C_ContractType, synonyms |-> <<
        <<"t","i","p","o"," ","d","e"," ","c","o","n","t","r","a","t","o">>,
        <<"c","l","a","s","i","f","i","c","a","c","i","o'","n"," ","c","o","n","t","r","a","t","o">>>>],
    [standard |-> C_Department, synonyms |-> <<
        <<"g","e","r","e","n","c","i","a">>,
        <<"g","e","r","e","n","c","i","a"," ","p","r","e","s","u","p","u","e","s","t","o">>,
        <<"s","u","b"," ","g","e","r","e","n","c","i","a">>>>],
    [standard |-> C_BirthDate, synonyms |-> <<
        <<"f","e","c","h","a"," ","d","e"," ","n","a","c","i","m","i","e","n","t","o">>>>],
    [standard |-> C_Age, synonyms |-> <<
        <<"e","d","a","d">>,
        <<"e","d","a","d"," ","a","l"," ","c","o","r","t","e"," ","d","e"," ","m","e","s">>>>],
    [standard |-> C_Gender, synonyms |-> <<
        <<"s","e","x","o">>>>],
    [standard |-> C_ContractStartDate, synonyms |-> <<
        <<"f","e","c","h","a"," ","d","e"," ","i","n","i","c","i","o"," ","c","o","n","t","r","a","t","o">>>>],
    [standard |-> C_ContractEndDate, synonyms |-> <<
        <<"f","e","c","h","a"," ","d","e"," ","t","e'","r","m","i","n","o"," ","c","o","n","t","r","a","t","o">>>>],
    [standard |-> C_TenureMonths, synonyms |-> <<
        <<"a","n","t","i","g","u","e","d","a","d"," ","a","l"," ","c","o","r","t","e"," ","d","e"," ","m","e","s">>>>],
    [standard |-> C_Nationality, synonyms |-> <<
        <<"n","a","c","i","o'","n">>>>],
    [standard |-> C_RegularLeaveDays, synonyms |-> <<
        <<"d","i'","a","s"," ","d","e"," ","l","i","c","e","n","c","i","a"," ","n","o","r","m","a","l","e","s">>>>],
    [standard |-> C_MaternityLeaveDays, synonyms |-> <<
        <<"d","i'","a","s"," ","d","e"," ","l","i","c","e","n","c","i","a"," ","m","a","t","e","r","n","a","l","e","s">>>>],
    [standard |-> C_SickLeaveDays, synonyms |-> <<
        <<"d","i","a","s"," ","c","o","n"," ","l","i","c","e","n","c","i","a"," ","p","o","r"," ","a","c","c","i","d","e","n","t","e">>>>],
    [standard |-> C_PermissionDays, synonyms |-> <<
        <<"d","i","a","s"," ","d","e"," ","p","e","r","m","i","s","o">>>>],
    [standard |-> C_AbsenceDays, synonyms |-> <<
        <<"d","i'","a","s"," ","d","e"," ","f","a","l","t","a">>>>],
    [standard |-> C_BaseSalary, synonyms |-> <<
        <<"s","u","e","l","d","o"," ","b","r","u","t","o"," ","c","o","n","t","r","a","c","t","u","a","l">>>>],
    [standard |-> C_DaysWorked, synonyms |-> <<
        <<"d","i'","a","s"," ","t","r","a","b","a","j","a","d","o","s">>>>]
  >>

\* [normalize_string(s) for s in synonyms], for every canonical attribute
synonyms_normalized ==
  [a \in 1..Len(STANDARD_COLUMN_SYNONYMS) |->
     [j \in 1..Len(STANDARD_COLUMN_SYNONYMS[a].synonyms) |->
        normalize_string(STANDARD_COLUMN_SYNONYMS[a].synonyms[j])]]

InSeq(x, s) == \E i \in 1..Len(s) : s[i] = x

\* The canonical attributes whose normalized synonyms contain norm_col
Matches(norm_col) ==
  {a \in 1..Len(STANDARD_COLUMN_SYNONYMS) : InSeq(norm_col, synonyms_normalized[a])}

Min(S) == CHOOSE x \in S : \A y \in S : x <= y

\* new_columns[col] when the column takes the synonym-table key of its
\* position instead of the matching one
new_column_shift(col) ==
  LET m == Matches(normalize_string(col))
  IN  IF m = {} THEN col
      ELSE STANDARD_COLUMN_SYNONYMS[(Min(m) % Len(STANDARD_COLUMN_SYNONYMS)) + 1].standard

\* new_columns[col] when a column without a match takes its normalized name
new_column_normalized(col) ==
  LET m == Matches(normalize_string(col))
  IN  IF m = {} THEN normalize_string(col) ELSE STANDARD_COLUMN_SYNONYMS[Min(m)].standard

\* new_columns[col]: the first attribute, in declaration order, one of whose
\* normalized synonyms equals the normalized column name; else the name itself
new_column(col) ==
  LET m == Matches(normalize_string(col))
  IN  IF m = {} THEN col ELSE STANDARD_COLUMN_SYNONYMS[Min(m)].standard

\* new_columns[col] over a synonym table: the attributes are tried in the
\* order of the table and the first that matches is taken (break)
matching(table, col) ==
  LET norm_col == normalize_string(col)
  IN  {a \in 1..Len(table) :
         \E j \in 1..Len(table[a].synonyms) :
            normalize_string(table[a].synonyms[j]) = norm_col}

\* the loop without its break: a later attribute that matches overrides
first_match_overridden(table, col) ==
  LET m == matching(table, col)
  IN  IF m = {} THEN col ELSE table[CHOOSE a \in m : \A b \in m : b <= a].standard

first_match(table, col) ==
  LET m == matching(table, col)
  IN  IF m = {} THEN col ELSE table[Min(m)].standard

\* standardize_column_names when the module's table is `table`
rename_with(table, cols) ==
  [i \in 1..Len(cols) |-> [name |-> first_match(table, cols[i].name), vals |-> cols[i].vals]]

\* df.rename(columns=new_columns)
standardize_column_names(cols) ==
  [i \in 1..Len(cols) |-> [name |-> new_column(cols[i].name), vals |-> cols[i].vals]]

(***************************************************************************)
(* Cells and their arithmetic.                                             *)
(***************************************************************************)
Abs(x) == IF x < 0 THEN -x ELSE x

RECURSIVE GCD(_, _)
GCD(a, b) == IF b = 0 THEN a ELSE GCD(b, a % b)

Null == [k |-> "null", n |-> 0, d |-> 1, s |-> <<>>]

\* n/d in lowest terms with a positive denominator (d # 0)
Rat(n, d) ==
  LET g == GCD(Abs(n), Abs(d))
      sg == IF d < 0 THEN -1 ELSE 1
  IN  [k |-> "num", n |-> sg * (n \div g), d |-> sg * (d \div g), s |-> <<>>]

Num(n) == [k |-> "num", n |-> n, d |-> 1, s |-> <<>>]

Str(s) == [k |-> "str", n |-> 0, d |-> 1, s |-> s]

Date(y, m, dd) == [k |-> "date", n |-> y * 10000 + m * 100 + dd, d |-> 1, s |-> <<>>]

IsNull(c) == c.k = "null"

IsNum(c) == c.k = "num"

IsStr(c) == c.k = "str"

Less(a, b) == a.n * b.d < b.n * a.d

Leq(a, b) == a.n * b.d <= b.n * a.d

\* a - b and a / b on numbers; a missing operand gives a missing result
Sub(a, b) == IF IsNum(a) /\ IsNum(b) THEN Rat(a.n * b.d - b.n * a.d, a.d * b.d) ELSE Null

Add(a, b) == IF IsNum(a) /\ IsNum(b) THEN Rat(a.n * b.d + b.n * a.d, a.d * b.d) ELSE Null

\* x / 0 is inf or NaN in a float Series: never a number of the model
Div(a, b) ==
  IF IsNum(a) /\ IsNum(b) /\ b.n # 0 THEN Rat(a.n * b.d, a.d * b.n) ELSE Null

(***************************************************************************)
(* DataFrames.                                                             *)
(***************************************************************************)
NoneDf == [none |-> TRUE, cols |-> <<>>]

Frame(cols) == [none |-> FALSE, cols |-> cols]

HasCol(cols, name) == \E i \in 1..Len(cols) : cols[i].name = name

\* the position of the first column of that name
ColIndex(cols, name) == Min({i \in 1..Len(cols) : cols[i].name = name})

\* df[name]
Col(cols, name) == cols[ColIndex(cols, name)].vals

NRows(cols) == IF cols = <<>> THEN 0 ELSE Len(cols[1].vals)

\* df[name] = vals: in place when the column exists, appended otherwise
SetCol(cols, name, vals) ==
  IF HasCol(cols, name)
    THEN [cols EXCEPT ![ColIndex(cols, name)].vals = vals]
    ELSE Append(cols, [name |-> name, vals |-> vals])

\* df[name] = scalar
SetScalar(cols, name, c) == SetCol(cols, name, [r \in 1..NRows(cols) |-> c])

\* df.columns.duplicated(): a name already seen to the left
Duplicated(cols, i) == \E j \in 1..(i - 1) : cols[j].name = cols[i].name

\* keep='last': a name seen again to the right
DuplicatedKeepLast(cols, i) == \E j \in (i + 1)..Len(cols) : cols[j].name = cols[i].name

\* the columns at the positions in keep, in their order
RECURSIVE Pick(_, _, _)
Pick(cols, keep, i) ==
  IF i > Len(cols) THEN <<>>
  ELSE (IF i \in keep THEN <<cols[i]>> ELSE <<>>) \o Pick(cols, keep, i + 1)

drop_duplicated_last(cols) ==
  Pick(cols, {i \in 1..Len(cols) : ~DuplicatedKeepLast(cols, i)}, 1)

\* df.loc[:, ~df.columns.duplicated()]
drop_duplicated(cols) == Pick(cols, {i \in 1..Len(cols) : ~Duplicated(cols, i)}, 1)

(***************************************************************************)
(* The derived-field engine: the steps of load_hr_data after the file is   *)
(* read, and normalize_and_map_data.                                       *)
(***************************************************************************)
HasStr(vals) == \E r \in 1..Len(vals) : IsStr(vals[r])

HasNull(vals) == \E r \in 1..Len(vals) : IsNull(vals[r])

Digits == <<"0","1","2","3","4","5","6","7","8","9">>

IsDigit(c) == InSeq(c, Digits)

DigitVal(c) == (CHOOSE i \in 1..10 : Digits[i] = c) - 1

RECURSIVE NatToStr(_)
NatToStr(n) ==
  IF n < 10 THEN <<Digits[n + 1]>> ELSE NatToStr(n \div 10) \o <<Digits[(n % 10) + 1]>>

IntToStr(n) == IF n < 0 THEN <<"-">> \o NatToStr(-n) ELSE NatToStr(n)

\* str(x) of a cell of a column: an integer of a float64 column (one that
\* also holds missing values) prints with ".0"
CellToStr(c, is_float) ==
  IF IsStr(c) THEN c
  ELSE IF IsNum(c) /\ c.d = 1
    THEN Str(IntToStr(c.n) \o (IF is_float THEN <<".","0">> ELSE <<>>))
  ELSE IF IsNull(c) THEN Str(<<>>)
  ELSE c

\* df['Faena'].fillna('').astype(str)
fillna_astype_str(vals) ==
  LET is_float == HasNull(vals) /\ ~HasStr(vals)
  IN  [r \in 1..Len(vals) |-> CellToStr(vals[r], is_float)]

C_Faena == <<"F","a","e","n","a">>

DaysInMonth(y, m) ==
  IF m = 2 THEN (IF (y % 4 = 0 /\ y % 100 # 0) \/ y % 400 = 0 THEN 29 ELSE 28)
  ELSE IF m \in {4, 6, 9, 11} THEN 30 ELSE 31

\* pd.to_datetime(., dayfirst=True, errors='coerce') of one cell.  The str
\* inputs of the model are DD/MM/YYYY texts or texts that are no date at all;
\* an integer is a count of nanoseconds since the epoch.
to_datetime(c) ==
  IF c.k = "date" \/ IsNull(c) THEN c
  ELSE IF IsNum(c) THEN Date(1970, 1, 1)
  ELSE LET s == c.s IN
    IF /\ Len(s) = 10
       /\ s[3] = "/" /\ s[6] = "/"
       /\ \A i \in {1, 2, 4, 5, 7, 8, 9, 10} : IsDigit(s[i])
    THEN LET dd == 10 * DigitVal(s[1]) + DigitVal(s[2])
             mm == 10 * DigitVal(s[4]) + DigitVal(s[5])
             yy == 1000 * DigitVal(s[7]) + 100 * DigitVal(s[8])
                   + 10 * DigitVal(s[9]) + DigitVal(s[10])
         IN  IF mm \in 1..12 /\ dd >= 1 /\ dd <= DaysInMonth(yy, mm)
               THEN Date(yy, mm, dd) ELSE Null
    ELSE Null

date_cols == <<C_BirthDate, C_ContractStartDate, C_ContractEndDate>>

RECURSIVE parse_dates(_, _)
parse_dates(cols, i) ==
  IF i > Len(date_cols) THEN cols
  ELSE LET col == date_cols[i] IN
       parse_dates(IF HasCol(cols, col)
                     THEN SetCol(cols, col,
                            [r \in 1..NRows(cols) |-> to_datetime(Col(cols, col)[r])])
                     ELSE cols,
                   i + 1)

C_TenureYears == <<"T","e","n","u","r","e","Y","e","a","r","s">>

\* TenureMonths / 10, a wrong divisor
tenure_years_wrong(vals) == [r \in 1..Len(vals) |-> Div(vals[r], Num(10))]

\* df['TenureMonths'] / 12
tenure_years(vals) == [r \in 1..Len(vals) |-> Div(vals[r], Num(12))]

Inf == [k |-> "inf", n |-> 0, d |-> 1, s |-> <<>>]

\* bound < x, bound <= x, x < bound, x <= bound for a bin edge (a number or inf)
EdgeLess(b, x) == b.k # "inf" /\ Less(b, x)

EdgeLeq(b, x) == b.k # "inf" /\ Leq(b, x)

LessEdge(x, b) == b.k = "inf" \/ Less(x, b)

LeqEdge(x, b) == b.k = "inf" \/ Leq(x, b)

\* pd.cut of one value: the label of the bin that holds x, or missing.
\* right=True bins are (lo, hi], right=False bins are [lo, hi);
\* include_lowest adds the first edge to the first bin.
cut(x, bins, labels, right, include_lowest) ==
  IF ~IsNum(x) THEN Null
  ELSE LET hit == {i \in 1..Len(labels) :
                     IF right
                       THEN \/ EdgeLess(bins[i], x) /\ LeqEdge(x, bins[i + 1])
                            \/ include_lowest /\ i = 1 /\ x = bins[1]
                       ELSE EdgeLeq(bins[i], x) /\ LessEdge(x, bins[i + 1])}
       IN  IF hit = {} THEN Null ELSE Str(labels[Min(hit)])

age_bins == <<Num(18), Num(25), Num(35), Num(45), Num(55), Num(65), Num(100)>>

age_labels == <<<<"1","8","-","2","4">>, <<"2","5","-","3","4">>, <<"3","5","-","4","4">>, <<"4","5","-","5","4">>, <<"5","5","-","6","4">>, <<"6","5","+">>>>

C_AgeGroup == <<"A","g","e","G","r","o","u","p">>

\* pd.cut(df['Age'], bins=age_bins, labels=age_labels) with the default right=True
age_group_right_closed(vals) ==
  [r \in 1..Len(vals) |-> cut(vals[r], age_bins, age_labels, TRUE, FALSE)]

\* pd.cut(df['Age'], bins=age_bins, labels=age_labels, right=False)
age_group(vals) ==
  [r \in 1..Len(vals) |-> cut(vals[r], age_bins, age_labels, FALSE, FALSE)]

V_F == Str(<<"F">>)

V_M == Str(<<"M">>)

V_Femenino == Str(<<"F","e","m","e","n","i","n","o">>)

V_Masculino == Str(<<"M","a","s","c","u","l","i","n","o">>)

\* the mapping with the keys 'f' and 'm' beside 'F' and 'M'
gender_map_caseless(c) ==
  IF c \in {V_F, Str(<<"f">>)} THEN V_Femenino
  ELSE IF c \in {V_M, Str(<<"m">>)} THEN V_Masculino
  ELSE Null

\* Series.map(gender_mapping): a value that is no key of the dict gives NaN
gender_map(c) ==
  IF c = V_F THEN V_Femenino ELSE IF c = V_M THEN V_Masculino ELSE Null

\* Series.fillna(other): a missing value is taken from other
fillna(c, other) == IF IsNull(c) THEN other ELSE c

\* the mapping without its .fillna(df['Gender'])
map_gender_nofill(vals) == [r \in 1..Len(vals) |-> gender_map(vals[r])]

\* df['Gender'].map(gender_mapping).fillna(df['Gender'])
map_gender(vals) == [r \in 1..Len(vals) |-> fillna(gender_map(vals[r]), vals[r])]

cols_to_normalize ==
  <<C_AbsenceDays, C_SickLeaveDays, C_RegularLeaveDays, C_MaternityLeaveDays,
    C_PermissionDays>>

Normalized_ == <<"N","o","r","m","a","l","i","z","e","d","_">>

\* Series.min() and Series.max(): missing values are skipped; missing when
\* nothing is left
NumCells(vals) == {vals[r] : r \in {q \in 1..Len(vals) : IsNum(vals[q])}}

series_min(vals) ==
  LET S == NumCells(vals)
  IN  IF S = {} THEN Null ELSE CHOOSE x \in S : \A y \in S : Leq(x, y)

series_max(vals) ==
  LET S == NumCells(vals)
  IN  IF S = {} THEN Null ELSE CHOOSE x \in S : \A y \in S : Leq(y, x)

\* the min-max scaling without the max_val - min_val != 0 test
min_max_unguarded(vals) ==
  LET min_val == series_min(vals)
      max_val == series_max(vals)
  IN  [r \in 1..Len(vals) |-> Div(Sub(vals[r], min_val), Sub(max_val, min_val))]

\* Normalized_<col>: (df[col] - min_val) / (max_val - min_val) when
\* max_val - min_val != 0 (a NaN difference is != 0 too), else 0.0
min_max(vals) ==
  LET min_val == series_min(vals)
      max_val == series_max(vals)
  IN  IF Sub(max_val, min_val) # Num(0)
        THEN [r \in 1..Len(vals) |-> Div(Sub(vals[r], min_val), Sub(max_val, min_val))]
        ELSE [r \in 1..Len(vals) |-> Num(0)]

RECURSIVE normalize_cols(_, _)
normalize_cols(cols, i) ==
  IF i > Len(cols_to_normalize) THEN cols
  ELSE LET col == cols_to_normalize[i] IN
       normalize_cols(IF HasCol(cols, col)
                        THEN SetCol(cols, Normalized_ \o col, min_max(Col(cols, col)))
                        ELSE cols,
                      i + 1)

normalize_and_map_data(cols) ==
  LET mapped == IF HasCol(cols, C_Gender)
                  THEN SetCol(cols, C_Gender, map_gender(Col(cols, C_Gender)))
                  ELSE cols
  IN  normalize_cols(mapped, 1)

\* The steps of load_hr_data on the table read from the file (lines 137-158)
enrich(cols0) ==
  LET renamed == drop_duplicated(standardize_column_names(cols0))
      faena == IF HasCol(renamed, C_Faena)
                 THEN SetCol(renamed, C_Faena, fillna_astype_str(Col(renamed, C_Faena)))
                 ELSE renamed
      dated == parse_dates(faena, 1)
      tenured == IF HasCol(dated, C_TenureMonths)
                   THEN SetCol(dated, C_TenureYears, tenure_years(Col(dated, C_TenureMonths)))
                   ELSE dated
      aged == IF HasCol(tenured, C_Age)
                THEN SetCol(tenured, C_AgeGroup, age_group(Col(tenured, C_Age)))
                ELSE tenured
  IN  normalize_and_map_data(aged)

\* the exceptions when the steps index their column without testing for it:
\* a table without an Age column raises KeyError
enrich_raises_strict(cols0) ==
  LET renamed == drop_duplicated(standardize_column_names(cols0))
  IN  \/ ~HasCol(renamed, C_Age)
      \/ HasStr(Col(renamed, C_Age))
      \/ HasCol(renamed, C_TenureMonths) /\ HasStr(Col(renamed, C_TenureMonths))
      \/ \E i \in 1..Len(cols_to_normalize) :
            /\ HasCol(renamed, cols_to_normalize[i])
            /\ HasStr(Col(renamed, cols_to_normalize[i]))

\* The exceptions of those steps: arithmetic, pd.cut and min/max on a column
\* that holds a str raise TypeError
enrich_raises(cols0) ==
  LET renamed == drop_duplicated(standardize_column_names(cols0))
  IN  \/ HasCol(renamed, C_TenureMonths) /\ HasStr(Col(renamed, C_TenureMonths))
      \/ HasCol(renamed, C_Age) /\ HasStr(Col(renamed, C_Age))
      \/ \E i \in 1..Len(cols_to_normalize) :
            /\ HasCol(renamed, cols_to_normalize[i])
            /\ HasStr(Col(renamed, cols_to_normalize[i]))

Ext_csv == <<".","c","s","v">>

Ext_xlsx == <<".","x","l","s","x">>

Ext_xls == <<".","x","l","s">>

\* load_hr_data that reads a file of any name
load_hr_data_any_extension(fname, table) ==
  IF enrich_raises(table) THEN NoneDf ELSE Frame(enrich(table))

\* load_hr_data: the table, or None when the extension is not supported or a
\* step raised (the except branch)
load_hr_data(fname, table) ==
  IF ~(EndsWith(fname, Ext_csv) \/ EndsWith(fname, Ext_xlsx) \/ EndsWith(fname, Ext_xls))
    THEN NoneDf
  ELSE IF enrich_raises(table) THEN NoneDf
  ELSE Frame(enrich(table))

(***************************************************************************)
(* The reporting functions that work on the enriched table.                *)
(***************************************************************************)
C_SalaryBand == <<"S","a","l","a","r","y","B","a","n","d">>

\* the bins when salaries are taken to be in thousands
salary_bins_thousands ==
  <<Num(0), Num(500), Num(1000), Num(1500), Num(2000), Num(3000), Inf>>

salary_bins ==
  <<Num(0), Num(500000), Num(1000000), Num(1500000), Num(2000000), Num(3000000), Inf>>

salary_labels == <<<<"<","5","0","0","k">>, <<"5","0","0","k","-","1","M">>, <<"1","M","-","1",".","5","M">>, <<"1",".","5","M","-","2","M">>, <<"2","M","-","3","M">>, <<"3","M","+">>>>

\* pd.cut(df_clean['BaseSalary'], bins=bins, labels=labels, include_lowest=True)
salary_band(x) == cut(x, salary_bins, salary_labels, TRUE, TRUE)

\* the rows of a table, as the sequence of the row positions that pass a test
RECURSIVE RowsWhere(_, _, _)
RowsWhere(n, keep, r) ==
  IF r > n THEN <<>>
  ELSE (IF r \in keep THEN <<r>> ELSE <<>>) \o RowsWhere(n, keep, r + 1)

\* the placeholder figure of an except branch
ErrorFigure == [status |-> "error", rows |-> <<>>]

(***************************************************************************)
(* float64 arithmetic on the values of a percentage.  A number is written  *)
(* in fixed point as 72 bits, most significant first, in six limbs of 12   *)
(* bits: 8 bits before the binary point and 64 after it, which is exact    *)
(* for every float64 between 2^-11 and 255.  Every operation rounds its    *)
(* exact result to 53 significant bits, ties to even, as IEEE 754 does.    *)
(***************************************************************************)
f64_zero == <<0, 0, 0, 0, 0, 0>>

\* the integer n, 0 <= n <= 255
f64_of_int(n) == <<n * 16, 0, 0, 0, 0, 0>>

\* bit p of the 72, 1 the most significant
f64_bit(x, p) == (x[((p - 1) \div 12) + 1] \div (2 ^ (11 - ((p - 1) % 12)))) % 2

\* the position of the leading 1, 73 for zero
f64_lead(x) ==
  IF x = f64_zero THEN 73
  ELSE CHOOSE p \in 1..72 : f64_bit(x, p) = 1 /\ \A q \in 1..(p - 1) : f64_bit(x, q) = 0

\* the limbs of a + b from limb i down, with the carry coming in
RECURSIVE f64_plus(_, _, _, _)
f64_plus(a, b, i, carry) ==
  IF i = 0 THEN <<>>
  ELSE LET cur == a[i] + b[i] + carry
       IN  f64_plus(a, b, i - 1, cur \div 4096) \o <<cur % 4096>>

\* round to nearest, ties to even: `sticky` says that the exact value has
\* more below the last of the 72 bits
f64_round(x, sticky) ==
  LET last == f64_lead(x) + 52
      limb == ((last - 1) \div 12) + 1
      unit == 2 ^ (11 - ((last - 1) % 12))
      kept == [j \in 1..6 |-> IF j < limb THEN x[j]
                              ELSE IF j = limb THEN x[j] - (x[j] % unit) ELSE 0]
      below == sticky \/ \E p \in (last + 2)..72 : f64_bit(x, p) = 1
      up == f64_bit(x, last + 1) = 1 /\ (below \/ f64_bit(x, last) = 1)
  IN  IF last >= 72 THEN x
      ELSE IF up THEN f64_plus(kept, [j \in 1..6 |-> IF j = limb THEN unit ELSE 0], 6, 0)
      ELSE kept

\* the quotient limbs of x / t from limb i on, long division with the
\* remainder `rem` carried in
RECURSIVE f64_quot(_, _, _, _)
f64_quot(x, t, i, rem) ==
  IF i > 6 THEN <<>>
  ELSE LET cur == 4096 * rem + x[i]
       IN  <<cur \div t>> \o f64_quot(x, t, i + 1, cur % t)

RECURSIVE f64_rem(_, _, _, _)
f64_rem(x, t, i, rem) ==
  IF i > 6 THEN rem ELSE f64_rem(x, t, i + 1, (4096 * rem + x[i]) % t)

\* float(c) / float(t) of two small integers, t > 0
f64_div(c, t) ==
  f64_round(f64_quot(f64_of_int(c), t, 1, 0), f64_rem(f64_of_int(c), t, 1, 0) # 0)

\* the limbs of x * k from limb i down, with the carry coming in
RECURSIVE f64_times(_, _, _, _)
f64_times(x, k, i, carry) ==
  IF i = 0 THEN <<>>
  ELSE LET cur == x[i] * k + carry
       IN  f64_times(x, k, i - 1, cur \div 4096) \o <<cur % 4096>>

\* x * k for a small integer k
f64_mul(x, k) == f64_round(f64_times(x, k, 6, 0), FALSE)

\* x + y
f64_add(a, b) == f64_round(f64_plus(a, b, 6, 0), FALSE)

\* x < y
RECURSIVE f64_less(_, _, _)
f64_less(a, b, i) ==
  IF i > 6 THEN FALSE
  ELSE IF a[i] # b[i] THEN a[i] < b[i]
  ELSE f64_less(a, b, i + 1)

\* x.sum() of the transform: the rows of the department d
group_total_overall(rows, d) == Len(rows)

group_total(rows, d) == Cardinality({i \in 1..Len(rows) : rows[i].Department = d})

\* x / x.sum() * 100 in float64
perc(count, total) == f64_mul(f64_div(count, total), 100)

\* df_counts: for every department of df_clean and every one of the six
\* bands (a categorical key brings its unobserved categories along, with
\* size 0), the number of rows and their share of the department
df_counts(rows) ==
  {[Department |-> d, SalaryBand |-> Str(salary_labels[b]),
    count |-> Cardinality({i \in 1..Len(rows) :
                             rows[i].Department = d /\ rows[i].SalaryBand = Str(salary_labels[b])}),
    perc |-> perc(Cardinality({i \in 1..Len(rows) :
                                 rows[i].Department = d
                                 /\ rows[i].SalaryBand = Str(salary_labels[b])}),
                  group_total(rows, d))] :
     <<d, b>> \in {rows[i].Department : i \in 1..Len(rows)} \X (1..Len(salary_labels))}

\* salary_analysis without its try/except: the exceptions reach the caller
salary_analysis_unguarded(cols) ==
  IF ~HasCol(cols, C_Department) \/ ~HasCol(cols, C_BaseSalary)
    THEN [status |-> "raised", rows |-> <<>>]
  ELSE LET dept == Col(cols, C_Department)
           sal == Col(cols, C_BaseSalary)
           clean == {r \in 1..NRows(cols) : ~IsNull(dept[r]) /\ ~IsNull(sal[r])}
           kept == RowsWhere(NRows(cols), {r \in clean : IsNum(sal[r])}, 1)
       IN  IF kept = <<>> \/ \E r \in clean : IsStr(sal[r])
             THEN [status |-> "raised", rows |-> <<>>]
             ELSE [status |-> "ok",
                   rows |-> [i \in 1..Len(kept) |->
                               [row |-> kept[i],
                                Department |-> dept[kept[i]],
                                BaseSalary |-> sal[kept[i]],
                                SalaryBand |-> salary_band(sal[kept[i]])]]]

\* salary_analysis: the rows of df_clean (Department, BaseSalary, SalaryBand)
\* behind the figure, or the error figure of the except branch
salary_analysis(cols) ==
  IF ~HasCol(cols, C_Department) \/ ~HasCol(cols, C_BaseSalary) THEN ErrorFigure
  ELSE LET dept == Col(cols, C_Department)
           sal == Col(cols, C_BaseSalary)
           clean == {r \in 1..NRows(cols) : ~IsNull(dept[r]) /\ ~IsNull(sal[r])}
       IN  IF \E r \in clean : IsStr(sal[r]) THEN ErrorFigure
           ELSE LET banded == {r \in clean : ~IsNull(salary_band(sal[r]))}
                    kept == RowsWhere(NRows(cols), banded, 1)
                    clean_rows == [i \in 1..Len(kept) |->
                                     [row |-> kept[i],
                                      Department |-> dept[kept[i]],
                                      BaseSalary |-> sal[kept[i]],
                                      SalaryBand |-> salary_band(sal[kept[i]])]]
                IN  IF kept = <<>> THEN ErrorFigure
                    ELSE [status |-> "ok", rows |-> clean_rows,
                          counts |-> df_counts(clean_rows)]

leave_columns ==
  <<C_RegularLeaveDays, C_MaternityLeaveDays, C_SickLeaveDays, C_PermissionDays>>

\* the leave columns without the last one
leave_columns_short ==
  <<C_RegularLeaveDays, C_MaternityLeaveDays, C_SickLeaveDays>>

existing_leave_short(cols) ==
  SelectSeq(leave_columns_short, LAMBDA col : HasCol(cols, col))

\* [col for col in leave_columns if col in df.columns]
existing_leave(cols) == SelectSeq(leave_columns, LAMBDA col : HasCol(cols, col))

\* DataFrame.sum(axis=1) of one row: missing cells are skipped, an empty sum is 0
RECURSIVE row_sum(_, _, _)
row_sum(cols, names, r) ==
  IF names = <<>> THEN Num(0)
  ELSE LET c == Col(cols, Head(names))[r]
           rest == row_sum(cols, Tail(names), r)
       IN  IF IsNum(c) THEN Add(c, rest) ELSE rest

C_TotalLeave == <<"T","o","t","a","l","L","e","a","v","e">>

C_VacationDays == <<"V","a","c","a","t","i","o","n","D","a","y","s">>

\* the assignments of attendance_analysis to the table it is given
attendance_mutation(cols) ==
  LET ex == existing_leave(cols)
      total == IF ex # <<>>
                 THEN SetCol(cols, C_TotalLeave,
                             [r \in 1..NRows(cols) |-> row_sum(cols, ex, r)])
                 ELSE SetScalar(cols, C_TotalLeave, Num(0))
  IN  IF ~HasCol(total, C_VacationDays)
        THEN SetScalar(total, C_VacationDays, Num(0))
        ELSE total

attendance_required == <<C_Department, C_DaysWorked, C_AbsenceDays>>

attendance_measures == <<C_DaysWorked, C_AbsenceDays, C_VacationDays>>

\* Series.mean() of the rows of one group: missing cells are skipped
RECURSIVE sum_rows(_, _)
sum_rows(vals, rows) ==
  IF rows = <<>> THEN Num(0)
  ELSE IF IsNum(vals[Head(rows)]) THEN Add(vals[Head(rows)], sum_rows(vals, Tail(rows)))
  ELSE sum_rows(vals, Tail(rows))

group_mean(vals, rows) ==
  LET present == SelectSeq(rows, LAMBDA r : IsNum(vals[r]))
  IN  IF present = <<>> THEN Null ELSE Div(sum_rows(vals, present), Num(Len(present)))

\* attendance_analysis: the per-department means behind the figure, or the
\* error figure of the except branch
attendance_analysis(cols0) ==
  LET cols == attendance_mutation(cols0) IN
  IF \E i \in 1..Len(attendance_required) : ~HasCol(cols, attendance_required[i])
    THEN ErrorFigure
  ELSE IF \E i \in 1..Len(attendance_measures) : HasStr(Col(cols, attendance_measures[i]))
    THEN ErrorFigure
  ELSE LET dept == Col(cols, C_Department)
           keys == {dept[r] : r \in {q \in 1..NRows(cols) : ~IsNull(dept[q])}}
       IN  [status |-> "ok",
            rows |-> {[Department |-> key,
                       DaysWorked |-> group_mean(Col(cols, C_DaysWorked),
                           RowsWhere(NRows(cols), {r \in 1..NRows(cols) : dept[r] = key}, 1)),
                       AbsenceDays |-> group_mean(Col(cols, C_AbsenceDays),
                           RowsWhere(NRows(cols), {r \in 1..NRows(cols) : dept[r] = key}, 1)),
                       VacationDays |-> group_mean(Col(cols, C_VacationDays),
                           RowsWhere(NRows(cols), {r \in 1..NRows(cols) : dept[r] = key}, 1))]
                      : key \in keys}]


\* demographic_analysis: it reads Gender, AgeGroup and TenureYears and
\* assigns nothing; the figure is drawn whatever columns are there
demographic_analysis(cols) == [fn |-> "demographic", status |-> "ok"]

\* contract_analysis: an empty figure, titled as insufficient, without both
\* ContractType and Department
contract_analysis(cols) ==
  [fn |-> "contract",
   status |-> IF ~HasCol(cols, C_ContractType) \/ ~HasCol(cols, C_Department)
                THEN "insufficient" ELSE "ok"]

C_Periodo == <<"P","e","r","i'","o","d","o">>

\* the format "%Y%d": the year and the day of the month
strftime_Yd(c) ==
  IF c.k = "date"
    THEN Str(NatToStr(c.n \div 10000) \o <<Digits[((c.n % 100) \div 10) + 1], Digits[(c.n % 10) + 1]>>)
    ELSE Null

\* Series.dt.strftime("%Y%m") of one cell: NaT gives a missing value
strftime_Ym(c) == IF c.k = "date" THEN Str(NatToStr(c.n \div 100)) ELSE Null

\* df['Período'] = df['ContractStartDate'].dt.strftime("%Y%m")
period_from_start(cols) ==
  SetCol(cols, C_Periodo,
         [r \in 1..NRows(cols) |-> strftime_Ym(Col(cols, C_ContractStartDate)[r])])

absence_columns ==
  <<C_AbsenceDays, C_SickLeaveDays, C_RegularLeaveDays, C_MaternityLeaveDays,
    C_PermissionDays>>

\* the assignment of absenteeism_analysis to the table it is given
absenteeism_mutation(cols) ==
  IF ~HasCol(cols, C_Periodo) /\ HasCol(cols, C_ContractStartDate)
    THEN period_from_start(cols) ELSE cols

\* the characters of the period texts, in the order of their code points
PeriodChars == <<".","0","1","2","3","4","5","6","7","8","9","a","n">>

CodeRank(ch) == CHOOSE i \in 1..Len(PeriodChars) : PeriodChars[i] = ch

\* s < t on str
RECURSIVE StrLess(_, _)
StrLess(s, t) ==
  IF t = <<>> THEN FALSE
  ELSE IF s = <<>> THEN TRUE
  ELSE IF Head(s) = Head(t) THEN StrLess(Tail(s), Tail(t))
  ELSE CodeRank(Head(s)) < CodeRank(Head(t))

\* the group keys of groupby('Período'), sorted; missing keys are dropped
RECURSIVE SortedKeys(_)
SortedKeys(S) ==
  IF S = {} THEN <<>>
  ELSE LET k == CHOOSE x \in S : \A y \in S \ {x} : StrLess(x, y)
       IN  <<k>> \o SortedKeys(S \ {k})

Mul(a, b) == IF IsNum(a) /\ IsNum(b) THEN Rat(a.n * b.n, a.d * b.d) ELSE Null

\* DataFrame.sum(axis=1) of one row of sums
RECURSIVE sum_cells(_)
sum_cells(cells) ==
  IF cells = <<>> THEN Num(0)
  ELSE IF IsNum(Head(cells)) THEN Add(Head(cells), sum_cells(Tail(cells)))
  ELSE sum_cells(Tail(cells))

\* no aggregated table
NoAgg == [cols |-> <<>>, rows |-> <<>>]

\* (agg_df[col] / agg_df['TotalAusentismo']) * 100
pct_of(days, total) == Mul(Div(days, total), Num(100))

\* agg_df of lines 374-378: per period the sum of each absence column that
\* is there (cols), their total and the percentage of each
aggregate(cols) ==
  LET present == SelectSeq(absence_columns, LAMBDA c : HasCol(cols, c))
      p == Col(cols, C_Periodo)
      n == NRows(cols)
      keys == SortedKeys({p[r].s : r \in {q \in 1..n : IsStr(p[q])}})
  IN  [cols |-> present,
       rows |-> [i \in 1..Len(keys) |->
                   LET rows == RowsWhere(n, {r \in 1..n : p[r] = Str(keys[i])}, 1)
                       days == [j \in 1..Len(present) |-> sum_rows(Col(cols, present[j]), rows)]
                       total == sum_cells(days)
                   IN  [Periodo |-> keys[i],
                        days |-> days,
                        TotalAusentismo |-> total,
                        pct |-> [j \in 1..Len(present) |-> pct_of(days[j], total)]]]]

\* absenteeism_analysis, as far as its outcome: the ValueError without a
\* period, the early return without absence columns, the TypeError of
\* format_period on a period that is a number, the IndexError of
\* agg_df.iloc[-1] when no row has a period, the figures otherwise
absenteeism_analysis(cols0) ==
  LET cols == absenteeism_mutation(cols0) IN
  [fn |-> "absenteeism",
   status |-> IF ~HasCol(cols, C_Periodo) THEN "raised"
              ELSE IF \A i \in 1..Len(absence_columns) : ~HasCol(cols, absence_columns[i])
                THEN "no_columns"
              ELSE IF \E r \in 1..NRows(cols) : IsNum(Col(cols, C_Periodo)[r])
                THEN "raised"
              ELSE IF \A r \in 1..NRows(cols) : IsNull(Col(cols, C_Periodo)[r])
                THEN "raised"
              ELSE "ok"]

\* the aggregated table absenteeism_analysis returns, when it returns one
absenteeism_agg(cols0) ==
  IF absenteeism_analysis(cols0).status = "ok"
    THEN aggregate(absenteeism_mutation(cols0)) ELSE NoAgg

\* absenteeism_comparison(agg_df, period1, period2): the comparison rows, or
\* the ValueError of line 479, or the TypeError of formatting None at line
\* 515 when the total of the first period is 0
absenteeism_comparison(agg, period1, period2) ==
  LET at1 == {i \in 1..Len(agg.rows) : agg.rows[i].Periodo = period1}
      at2 == {i \in 1..Len(agg.rows) : agg.rows[i].Periodo = period2}
  IN  IF at1 = {} \/ at2 = {}
        THEN [kind |-> "comparison", period1 |-> period1, period2 |-> period2, status |-> "value_error", rows |-> <<>>]
      ELSE LET comp1 == agg.rows[Min(at1)]
               comp2 == agg.rows[Min(at2)]
           IN  IF comp1.TotalAusentismo.n = 0
                 THEN [kind |-> "comparison", period1 |-> period1, period2 |-> period2, status |-> "type_error", rows |-> <<>>]
                 ELSE [kind |-> "comparison", period1 |-> period1, period2 |-> period2, status |-> "ok",
                       rows |-> [j \in 1..Len(agg.cols) |->
                                   [TipoAusencia |-> agg.cols[j],
                                    val1 |-> comp1.days[j],
                                    val2 |-> comp2.days[j],
                                    Diferencia |-> Sub(comp2.days[j], comp1.days[j]),
                                    Diferencia_pct |->
                                      IF comp1.days[j].n # 0
                                        THEN Mul(Div(Sub(comp2.days[j], comp1.days[j]),
                                                     comp1.days[j]), Num(100))
                                        ELSE Null,
                                    pct1 |-> comp1.pct[j],
                                    pct2 |-> comp2.pct[j]]]]

(***************************************************************************)
(* The dashboard (app.py): the period filter and what main puts on screen. *)
(***************************************************************************)
Todos == <<"T","o","d","o","s">>

\* Series.astype(str) of one cell: a missing value prints as 'nan'
astype_str(vals) ==
  LET is_float == HasNull(vals) /\ ~HasStr(vals)
  IN  [r \in 1..Len(vals) |->
         IF IsNull(vals[r]) THEN Str(<<"n","a","n">>) ELSE CellToStr(vals[r], is_float)]

\* the table after lines 130-134: the period synthesised and made a str
with_period(cols) ==
  LET synth == IF ~HasCol(cols, C_Periodo) /\ HasCol(cols, C_ContractStartDate)
                 THEN period_from_start(cols) ELSE cols
  IN  IF HasCol(synth, C_Periodo)
        THEN SetCol(synth, C_Periodo, astype_str(Col(synth, C_Periodo)))
        ELSE synth

\* the periods long enough to hold a year and a month
long_periods(cols) ==
  IF ~HasCol(cols, C_Periodo) THEN {}
  ELSE {Col(cols, C_Periodo)[r].s :
          r \in {q \in 1..NRows(cols) : Len(Col(cols, C_Periodo)[q].s) >= 6}}

\* ["Todos"] + unique_years
year_options(cols) == {Todos} \cup {SubSeq(p, 1, 4) : p \in long_periods(cols)}

\* "Todos" and the months on offer, as the two digits the choice is cut to
month_options(cols) == {Todos} \cup {SubSeq(p, 5, 6) : p \in long_periods(cols)}

StartsWith(s, prefix) ==
  /\ Len(prefix) <= Len(s)
  /\ SubSeq(s, 1, Len(prefix)) = prefix

\* df[mask]: the rows kept, in their order
take_rows(cols, rows) ==
  [i \in 1..Len(cols) |->
     [name |-> cols[i].name, vals |-> [j \in 1..Len(rows) |-> cols[i].vals[rows[j]]]]]

\* the rows of lines 148-151
filter_rows(cols, year, month) ==
  LET p == Col(cols, C_Periodo)
  IN  RowsWhere(NRows(cols),
                {r \in 1..NRows(cols) :
                   /\ year # Todos => StartsWith(p[r].s, year)
                   /\ month # Todos => EndsWith(p[r].s, month)}, 1)

\* setup_period_filters(df) on a table: the table as it leaves it (df) and
\* the one returned (filtered), which is df itself without a period column
setup_period_filters(cols, year, month) ==
  LET out == with_period(cols)
  IN  IF HasCol(out, C_Periodo)
        THEN [df |-> out, filtered |-> take_rows(out, filter_rows(out, year, month))]
        ELSE [df |-> out, filtered |-> out]

\* an emptiness test that looks at the columns only
empty_no_columns(cols) == cols = <<>>

\* DataFrame.empty: no column or no row
empty(cols) == cols = <<>> \/ NRows(cols) = 0

NoScreen == [year |-> Todos, month |-> Todos, message |-> "none", metrics |-> FALSE, analysis |-> "none"]

analysis_keys == {"Datos Procesados", "Demografico", "Contratos", "Salarial", "Asistencia", "Ausentismo"}

\* the table of the Asistencia view (lines 344-351): the per-department means
\* when the three required columns are there; the KeyError of a missing
\* VacationDays and the TypeError of a mean over texts are swallowed by the
\* bare except and nothing is displayed
attendance_table(cols) ==
  IF /\ \A i \in 1..Len(attendance_required) : HasCol(cols, attendance_required[i])
     /\ HasCol(cols, C_VacationDays)
     /\ \A i \in 1..Len(attendance_measures) : ~HasStr(Col(cols, attendance_measures[i]))
    THEN [kind |-> "asistencia", shown |-> TRUE, rows |-> attendance_analysis(cols).rows]
    ELSE [kind |-> "asistencia", shown |-> FALSE, rows |-> {}]

RECURSIVE StrToNat(_)
StrToNat(s) == IF s = <<>> THEN 0 ELSE 10 * StrToNat(SubSeq(s, 1, Len(s) - 1)) + DigitVal(s[Len(s)])

\* pd.to_numeric(., errors="coerce") of one cell that is a number, a text or
\* missing: a text of digits is its number, any other text is missing
to_numeric(c) ==
  IF IsStr(c)
    THEN (IF c.s # <<>> /\ \A i \in 1..Len(c.s) : IsDigit(c.s[i]) THEN Num(StrToNat(c.s)) ELSE Null)
    ELSE c

\* the columns the age can be mapped to here: those without a timestamp
mappable(cols) ==
  {cols[i].name : i \in {j \in 1..Len(cols) : \A r \in 1..NRows(cols) : cols[j].vals[r].k # "date"}}

\* df_demo["AgeGroup"] of the mapping path (app.py 248-250): pd.cut with the
\* same bins and labels and the default right=True
mapped_age_group(vals) ==
  [r \in 1..Len(vals) |-> cut(to_numeric(vals[r]), age_bins, age_labels, TRUE, FALSE)]

\* the Demográfico view with the column mapping ticked and `edad` selected
\* for the age
demographic_mapping(cols, edad) ==
  [kind |-> "demografico", edad |-> edad, AgeGroup |-> mapped_age_group(Col(cols, edad))]

(***************************************************************************)
(* show_key_metrics of analysis.py: first row of metrics (the salary        *)
(* average and the number of Gerencias of the second row are left out).    *)
(***************************************************************************)
H_NombreCompleto == <<"N","o","m","b","r","e"," ","C","o","m","p","l","e","t","o">>

H_ClasificacionContrato ==
  <<"C","l","a","s","i","f","i","c","a","c","i","o'","n"," ","C","o","n","t","r","a","t","o">>

C_nombre_norm == <<"n","o","m","b","r","e","_","n","o","r","m">>

C_contrato_norm == <<"c","o","n","t","r","a","t","o","_","n","o","r","m">>

T_planta == <<"p","l","a","n","t","a">>

T_temporada == <<"t","e","m","p","o","r","a","d","a">>

T_part_time == <<"p","a","r","t"," ","t","i","m","e">>

\* df["Nombre Completo"].astype(str).str.strip()
nombre_norm(vals) == [r \in 1..Len(vals) |-> Str(StrStrip(astype_str(vals)[r].s))]

\* df["Clasificación Contrato"].astype(str).str.lower().str.strip()
contrato_norm(vals) == [r \in 1..Len(vals) |-> Str(StrStrip(StrLower(astype_str(vals)[r].s)))]

\* a classification that looks for the temporary contracts first
obtener_clasificacion_final_temporal_first(lista) ==
  IF T_temporada \in lista \/ T_part_time \in lista THEN "temporal"
  ELSE IF T_planta \in lista THEN "planta"
  ELSE "desconocido"

\* obtener_clasificacion_final, on the set of the values of the list
obtener_clasificacion_final(lista) ==
  IF T_planta \in lista THEN "planta"
  ELSE IF T_temporada \in lista \/ T_part_time \in lista THEN "temporal"
  ELSE "desconocido"

\* the table as show_key_metrics leaves it: nombre_norm and contrato_norm
\* are assigned to the caller's table
key_metrics_mutation(cols) ==
  LET named == IF HasCol(cols, H_NombreCompleto)
                 THEN SetCol(cols, C_nombre_norm, nombre_norm(Col(cols, H_NombreCompleto)))
                 ELSE cols
  IN  IF HasCol(named, H_ClasificacionContrato) /\ HasCol(named, C_nombre_norm)
        THEN SetCol(named, C_contrato_norm,
                    contrato_norm(Col(named, H_ClasificacionContrato)))
        ELSE named

\* the three employee metrics and the classification behind them
show_key_metrics(cols0) ==
  LET cols == key_metrics_mutation(cols0)
      n == NRows(cols)
      names == IF HasCol(cols, C_nombre_norm) THEN Col(cols, C_nombre_norm) ELSE <<>>
      groups == {names[r].s : r \in 1..Len(names)}
      classified == HasCol(cols, C_contrato_norm)
      clasificacion_final ==
        [g \in (IF classified THEN groups ELSE {}) |->
           obtener_clasificacion_final(
             {Col(cols, C_contrato_norm)[r].s : r \in {q \in 1..n : names[q].s = g}})]
  IN  [kind |-> "key_metrics",
       total_empleados |-> IF HasCol(cols, C_nombre_norm) THEN Cardinality(groups) ELSE n,
       empleados_planta |->
         Cardinality({g \in DOMAIN clasificacion_final : clasificacion_final[g] = "planta"}),
       empleados_temp |->
         Cardinality({g \in DOMAIN clasificacion_final : clasificacion_final[g] = "temporal"}),
       clasificacion_final |-> clasificacion_final]

(***************************************************************************)
(* The 'Datos Procesados' view: the pages of the displayed rows.           *)
(***************************************************************************)
page_sizes == {10, 20, 50, 100}

\* total_pages without the page of the remainder
total_pages_floor(len, page_size) ==
  IF len \div page_size > 1 THEN len \div page_size ELSE 1

\* max(1, len // page_size + (1 if len % page_size > 0 else 0))
total_pages(len, page_size) ==
  LET pages == (len \div page_size) + (IF len % page_size > 0 THEN 1 ELSE 0)
  IN  IF pages > 1 THEN pages ELSE 1

\* displayed_df.iloc[(page - 1)*page_size : page*page_size], as the
\* positions 1..len of the rows shown
page_rows(len, page_size, page) ==
  ((page - 1) * page_size + 1)..(IF page * page_size < len THEN page * page_size ELSE len)
(***************************************************************************)
(* The files of the model: a file name and the table pandas reads from it. *)
(* Every family below is a set of tables; the rows of a table number from  *)
(* 1 to MaxRows, its columns at most MaxCols where the family leaves the   *)
(* number open.                                                            *)
(***************************************************************************)
Name_csv == <<"d",".","c","s","v">>

FileNames == {Name_csv, <<"d",".","x","l","s","x">>, <<"d",".","x","l","s">>, <<"d",".","t","x","t">>}

\* the headers of the tables that exercise the renaming
HeaderPool ==
  <<<<"S","e","x","o">>,
    <<" ","S","E","X","O"," ">>,
    <<"G","e'","n","e","r","o">>,
    <<"g","e","n","e","r","o">>,
    <<"G","E","N","E","R","O">>,
    <<"G","e","r","e","n","c","i","a">>,
    <<"S","u","b"," ","G","e","r","e","n","c","i","a">>,
    <<"E","d","a","d">>,
    <<"E","d","a","d"," ","a","l"," ","c","o","r","t","e"," ","d","e"," ","m","e","s">>,
    <<"F","a","e","n","a">>>>

RowCounts == 1..MaxRows

ColumnOf(name, vals) == [name |-> name, vals |-> vals]

\* the sequences of n distinct positions of the header pool
RECURSIVE Arrangements(_)
Arrangements(n) ==
  IF n = 0 THEN {<<>>}
  ELSE {Append(a, h) : a \in Arrangements(n - 1), h \in 1..Len(HeaderPool)}

DistinctArrangements(n) ==
  {a \in Arrangements(n) : \A i, j \in 1..n : i # j => a[i] # a[j]}

\* column j of a header table holds the numbers 10j+1, 10j+2, ...
HeaderTables ==
  UNION {{[j \in 1..n |-> ColumnOf(HeaderPool[a[j]], [r \in 1..MaxRows |-> Num(10 * j + r)])]
            : a \in DistinctArrangements(n)} : n \in 1..MaxCols}

CellSeqs(values) == UNION {[1..n -> values] : n \in RowCounts}

OneColumnTables(name, values) == {<<ColumnOf(name, vals)>> : vals \in CellSeqs(values)}

H_Sexo == <<"S","e","x","o">>

GenderValues ==
  {V_F, V_M, Str(<<"f">>), Str(<<"m">>), V_Femenino, Null}

GenderTables == OneColumnTables(H_Sexo, GenderValues)

H_Edad == <<"E","d","a","d">>

AgeValues ==
  {Num(17), Num(18), Num(24), Num(25), Num(34), Num(35), Num(44), Num(45),
   Num(54), Num(55), Num(64), Num(65), Num(99), Num(100), Null,
   Str(<<"s","/","i">>)}

\* the age tables: the first two rows hold the ages under test, the others 30
AgeTables ==
  {<<ColumnOf(H_Edad, [r \in 1..t[1] |-> IF r = 1 THEN t[2] ELSE IF r = 2 THEN t[3] ELSE Num(30)])>>
     : t \in {u \in RowCounts \X AgeValues \X AgeValues : u[1] = 1 => u[3] = Num(30)}}

H_Attendance ==
  <<<<"D","i'","a","s"," ","d","e"," ","F","a","l","t","a">>, <<"D","i","a","s"," ","c","o","n"," ","l","i","c","e","n","c","i","a"," ","p","o","r"," ","a","c","c","i","d","e","n","t","e">>, <<"D","i'","a","s"," ","d","e"," ","l","i","c","e","n","c","i","a"," ","n","o","r","m","a","l","e","s">>, <<"D","i'","a","s"," ","d","e"," ","l","i","c","e","n","c","i","a"," ","m","a","t","e","r","n","a","l","e","s">>, <<"D","i","a","s"," ","d","e"," ","p","e","r","m","i","s","o">>>>

AttendanceValues == {Num(0), Num(1), Num(3), Null}

\* the attendance tables: one of the five columns, with any values; or with
\* one cell that is no number
AttendanceTables ==
  UNION {OneColumnTables(H_Attendance[i], AttendanceValues) : i \in 1..Len(H_Attendance)}
    \cup {<<ColumnOf(H_Attendance[i],
                     [r \in 1..MaxRows |-> IF r = 1 THEN Str(<<"s","/","i">>) ELSE Num(1)])>>
            : i \in 1..Len(H_Attendance)}

H_Leave == <<<<"D","i'","a","s"," ","d","e"," ","l","i","c","e","n","c","i","a"," ","n","o","r","m","a","l","e","s">>, <<"D","i'","a","s"," ","d","e"," ","l","i","c","e","n","c","i","a"," ","m","a","t","e","r","n","a","l","e","s">>, <<"D","i","a","s"," ","c","o","n"," ","l","i","c","e","n","c","i","a"," ","p","o","r"," ","a","c","c","i","d","e","n","t","e">>, <<"D","i","a","s"," ","d","e"," ","p","e","r","m","i","s","o">>>>

H_Nombre == <<"N","o","m","b","r","e"," ","C","o","m","p","l","e","t","o">>

\* the leave tables: a name column, then any of the four leave columns; leave
\* column j holds 2^j days in every row, or 2^j, 2*2^j, 3*2^j, ... days down
\* the rows, or 2^j days but for a first row that is missing, or no value
LeaveCellPatterns == {"full", "rising", "first_missing", "all_missing"}

LeaveVals(j, pattern) ==
  [r \in 1..MaxRows |->
     IF pattern = "all_missing" \/ (pattern = "first_missing" /\ r = 1) THEN Null
     ELSE IF pattern = "rising" THEN Num(r * 2 ^ j)
     ELSE Num(2 ^ j)]

RECURSIVE LeaveColumns(_, _)
LeaveColumns(choice, j) ==
  IF j > Len(H_Leave) THEN <<>>
  ELSE (IF choice[j] = "absent" THEN <<>>
        ELSE <<ColumnOf(H_Leave[j], LeaveVals(j, choice[j]))>>)
       \o LeaveColumns(choice, j + 1)

LeaveTables ==
  {<<ColumnOf(H_Nombre, [r \in 1..MaxRows |-> Str(<<"p">>)])>> \o LeaveColumns(choice, 1)
     : choice \in [1..Len(H_Leave) -> LeaveCellPatterns \cup {"absent"}]}

H_Antiguedad == <<"A","n","t","i","g","u:","e","d","a","d"," ","a","l"," ","c","o","r","t","e"," ","d","e"," ","m","e","s">>

TenureValues == {Num(0), Num(6), Num(30), Null, Str(<<"s","/","i">>)}

TenureTables == OneColumnTables(H_Antiguedad, TenureValues)

H_Gerencia == <<"G","e","r","e","n","c","i","a">>

H_Sueldo == <<"S","u","e","l","d","o"," ","B","r","u","t","o"," ","C","o","n","t","r","a","c","t","u","a","l">>

V_Ops == Str(<<"O","p","s">>)

V_Adm == Str(<<"A","d","m">>)

SalaryValues ==
  {Num(-1), Num(0), Num(1), Num(499999), Num(500000), Num(500001), Num(1000000),
   Num(1500000), Num(2000000), Num(3000000), Num(3000001), Null,
   Str(<<"s","/","i">>)}

\* the salary tables: a department and a salary column; one row holds the
\* salary under test, the others 750000; at most one row has no department
SalaryTables ==
  {<<ColumnOf(H_Gerencia, [r \in 1..t[1] |-> IF r = t[3] THEN Null ELSE V_Ops]),
     ColumnOf(H_Sueldo, [r \in 1..t[1] |-> IF r = t[2] THEN t[4] ELSE Num(750000)])>>
     : t \in {u \in RowCounts \X RowCounts \X (0..MaxRows) \X SalaryValues :
                u[2] <= u[1] /\ u[3] <= u[1]}}

H_Inicio == <<"F","e","c","h","a"," ","d","e"," ","i","n","i","c","i","o"," ","c","o","n","t","r","a","t","o">>

DateValues ==
  {Str(<<"1","5","/","0","3","/","2","0","2","4">>), Str(<<"0","1","/","1","2","/","2","0","2","3">>),
   Str(<<"3","1","/","0","2","/","2","0","2","4">>), Str(<<"s","/","f">>), Null}

DateTables == OneColumnTables(H_Inicio, DateValues)

FaenaValues == {Str(<<"N","o","r","t","e">>), Null, Num(5)}

FaenaTables == OneColumnTables(C_Faena, FaenaValues)

H_Trabajados == <<"D","i'","a","s"," ","T","r","a","b","a","j","a","d","o","s">>

\* the attendance tables: department, days worked, days absent and, or not,
\* a vacation column
WorkedTables ==
  {<<ColumnOf(H_Gerencia, [r \in 1..MaxRows |-> IF r = 1 THEN d ELSE V_Adm]),
     ColumnOf(H_Trabajados, [r \in 1..MaxRows |-> IF r = 1 THEN w ELSE Num(20)]),
     ColumnOf(<<"D","i'","a","s"," ","d","e"," ","F","a","l","t","a">>, [r \in 1..MaxRows |-> IF r = 1 THEN a ELSE Num(2)])>>
     \o (IF vac THEN <<ColumnOf(C_VacationDays, [r \in 1..MaxRows |-> Num(3)])>> ELSE <<>>)
     : <<d, w, a, vac>> \in {V_Ops, V_Adm, Null} \X {Num(22), Null, Str(<<"s","/","i">>)}
                             \X {Num(0), Num(2), Null} \X BOOLEAN}

\* the tables of the end-to-end scenario: one employee, 'F', 30 years old,
\* 600000 of salary, without and with a department
ScenarioRow ==
  <<ColumnOf(H_Sexo, <<V_F>>), ColumnOf(H_Edad, <<Num(30)>>),
    ColumnOf(H_Sueldo, <<Num(600000)>>)>>

ScenarioTables == {ScenarioRow, ScenarioRow \o <<ColumnOf(H_Gerencia, <<V_Ops>>)>>}

\* the tables of several salaries a department: every row a department and
\* a salary of the first band or one of two of the second
BandRows ==
  {V_Ops, V_Adm} \X {Num(400000), Num(750000), Num(800000)}

BandTables ==
  {<<ColumnOf(H_Gerencia, [r \in 1..Len(rows) |-> rows[r][1]]),
     ColumnOf(H_Sueldo, [r \in 1..Len(rows) |-> rows[r][2]])>>
     : rows \in UNION {[1..n -> BandRows] : n \in RowCounts}}

InputTables ==
  HeaderTables \cup GenderTables \cup AgeTables \cup AttendanceTables \cup LeaveTables
    \cup TenureTables \cup SalaryTables \cup DateTables \cup FaenaTables \cup WorkedTables
    \cup ScenarioTables \cup BandTables

(***************************************************************************)
(* The state machine: a file is uploaded and loaded; the enriched table is *)
(* then handed to the reporting functions, in any order and any number of  *)
(* times, and the enrichment may be applied to it again.                   *)
(***************************************************************************)
NoFigure == [status |-> "none", rows |-> <<>>]

NoReport == [fn |-> "none", status |-> "none"]

\* nothing computed by a view yet
NoView == [kind |-> "none"]

\* Every table arrives as a .csv file; the Faena tables arrive under
\* every file name (the name only selects the reader, or the refusal)
Uploads == ({Name_csv} \X InputTables) \cup (FileNames \X FaenaTables)

Init ==
  /\ \E u \in Uploads : file_name = u[1] /\ raw = u[2]
  /\ df = NoneDf
  /\ pc = "uploaded"
  /\ salary = NoFigure
  /\ attendance = NoFigure
  /\ synonyms = STANDARD_COLUMN_SYNONYMS
  /\ filtered = NoneDf
  /\ screen = NoScreen
  /\ figure = NoReport
  /\ agg_df = NoAgg
  /\ view = NoView

\* df = load_hr_data(uploaded_file)
LoadHrData ==
  /\ pc = "uploaded"
  /\ df' = load_hr_data(file_name, raw)
  /\ pc' = IF df'.none THEN "failed" ELSE "loaded"
  /\ UNCHANGED <<file_name, raw, salary, attendance, synonyms, filtered, screen, figure, agg_df, view>>

\* the normalize+enrich steps of load_hr_data applied to the enriched table
Reapply ==
  /\ pc \in {"loaded", "reapplied"}
  /\ df' = IF enrich_raises(df.cols) THEN NoneDf ELSE Frame(enrich(df.cols))
  /\ pc' = IF df'.none THEN "failed" ELSE "reapplied"
  /\ UNCHANGED <<file_name, raw, salary, attendance, synonyms, filtered, screen, figure, agg_df, view>>

\* fig = salary_analysis(df)
SalaryAnalysis ==
  /\ pc \in {"loaded", "reapplied"}
  /\ salary' = salary_analysis(df.cols)
  /\ UNCHANGED <<file_name, raw, df, pc, attendance, synonyms, filtered, screen, figure, agg_df, view>>

\* fig = attendance_analysis(df), which assigns TotalLeave and VacationDays
\* to the table it is given
AttendanceAnalysis ==
  /\ pc \in {"loaded", "reapplied"}
  /\ attendance' = attendance_analysis(df.cols)
  /\ df' = Frame(attendance_mutation(df.cols))
  /\ UNCHANGED <<file_name, raw, pc, salary, synonyms, filtered, screen, figure, agg_df, view>>

\* the table as loaded, before any report was drawn from it
Fresh == pc = "loaded" /\ salary = NoFigure /\ attendance = NoFigure /\ figure = NoReport

\* fig = demographic_analysis(df)
DemographicAnalysis ==
  /\ Fresh
  /\ figure' = demographic_analysis(df.cols)
  /\ pc' = "reported"
  /\ UNCHANGED <<file_name, raw, df, salary, attendance, synonyms, filtered, screen, agg_df, view>>

\* fig = contract_analysis(df)
ContractAnalysis ==
  /\ Fresh
  /\ figure' = contract_analysis(df.cols)
  /\ pc' = "reported"
  /\ UNCHANGED <<file_name, raw, df, salary, attendance, synonyms, filtered, screen, agg_df, view>>

\* agg_df, figs, text = absenteeism_analysis(df), which assigns 'Período' to
\* the table it is given
AbsenteeismAnalysis ==
  /\ Fresh
  /\ figure' = absenteeism_analysis(df.cols)
  /\ agg_df' = absenteeism_agg(df.cols)
  /\ df' = Frame(absenteeism_mutation(df.cols))
  /\ pc' = "reported"
  /\ UNCHANGED <<file_name, raw, salary, attendance, synonyms, filtered, screen, view>>

Next ==
  \/ LoadHrData
  \/ Reapply
  \/ SalaryAnalysis
  \/ AttendanceAnalysis
  \/ DemographicAnalysis
  \/ ContractAnalysis
  \/ AbsenteeismAnalysis

Spec == Init /\ [][Next]_vars

(***************************************************************************)
(* The renaming under other synonym tables: the loop of                    *)
(* standardize_column_names run over tables whose attributes share         *)
(* synonyms, which the table of the module never does.                     *)
(***************************************************************************)
SynonymLists ==
  {<<<<"s","e","x","o">>>>,
   <<<<"e","d","a","d">>>>,
   <<<<"s","e","x","o">>, <<"e","d","a","d">>>>,
   <<<<"G","e'","n","e","r","o">>, <<"S","E","X","O">>>>}

StandardPool == {C_Gender, C_Age, C_Department}

\* two or three attributes with distinct standard names
SynonymTables ==
  UNION {{t \in [1..n -> [standard : StandardPool, synonyms : SynonymLists]] :
            \A a, b \in 1..n : a # b => t[a].standard # t[b].standard} : n \in 2..3}
    \cup {STANDARD_COLUMN_SYNONYMS}

SynonymHeaders ==
  {H_Sexo, <<" ","E","D","A","D"," ">>, <<"g","e","n","e","r","o">>,
   <<"C","a","r","g","o">>}

InitSynonyms ==
  /\ synonyms \in SynonymTables
  /\ \E h \in SynonymHeaders : raw = <<ColumnOf(h, <<Num(1)>>)>>
  /\ file_name = Name_csv
  /\ df = NoneDf
  /\ pc = "uploaded"
  /\ salary = NoFigure
  /\ attendance = NoFigure
  /\ filtered = NoneDf
  /\ screen = NoScreen
  /\ figure = NoReport
  /\ agg_df = NoAgg
  /\ view = NoView

\* df = standardize_column_names(df)
StandardizeColumnNames ==
  /\ pc = "uploaded"
  /\ df' = Frame(rename_with(synonyms, raw))
  /\ pc' = "standardized"
  /\ UNCHANGED <<file_name, raw, salary, attendance, synonyms, filtered, screen, figure, agg_df, view>>

NextSynonyms == StandardizeColumnNames

SpecSynonyms == InitSynonyms /\ [][NextSynonyms]_vars

(***************************************************************************)
(* One run of the dashboard (main): the file is loaded, the period filter  *)
(* is set, and, unless the selection is empty, the key metrics and one     *)
(* analysis view are displayed.  The views are taken with their optional   *)
(* column mapping unticked.                                                *)
(***************************************************************************)
\* the tables that bring their own 'Período' column, of numbers as a CSV
\* reader types it (int64, or float64 when a value is missing)
PeriodValues == {Num(202403), Num(202312), Null}

PeriodTables == OneColumnTables(C_Periodo, PeriodValues)

DashboardTables ==
  DateTables \cup WorkedTables \cup ScenarioTables \cup SalaryTables \cup AgeTables
    \cup PeriodTables

DashboardUploads == ({Name_csv} \X DashboardTables) \cup (FileNames \X FaenaTables)

InitDashboard ==
  /\ \E u \in DashboardUploads : file_name = u[1] /\ raw = u[2]
  /\ df = NoneDf
  /\ pc = "uploaded"
  /\ salary = NoFigure
  /\ attendance = NoFigure
  /\ synonyms = STANDARD_COLUMN_SYNONYMS
  /\ filtered = NoneDf
  /\ screen = NoScreen
  /\ figure = NoReport
  /\ agg_df = NoAgg
  /\ view = NoView

\* the period filter run on the table as read, before load_hr_data
SetupPeriodFiltersBeforeLoad ==
  /\ pc = "uploaded"
  /\ \E year \in year_options(with_period(raw)), month \in month_options(with_period(raw)) :
       LET out == setup_period_filters(raw, year, month)
       IN  /\ df' = Frame(out.df)
           /\ filtered' = Frame(out.filtered)
           /\ screen' = [screen EXCEPT !.year = year, !.month = month]
           /\ pc' = "filtered"
  /\ UNCHANGED <<file_name, raw, salary, attendance, synonyms, figure, agg_df, view>>

\* filtered_df = setup_period_filters(df); on None the attribute error is
\* caught by main, which shows the error message
SetupPeriodFilters ==
  /\ pc \in {"loaded", "failed"}
  /\ IF df.none
       THEN /\ screen' = [screen EXCEPT !.message = "error"]
            /\ pc' = "done"
            /\ UNCHANGED <<df, filtered, agg_df, view>>
       ELSE \E year \in year_options(with_period(df.cols)),
               month \in month_options(with_period(df.cols)) :
              LET out == setup_period_filters(df.cols, year, month)
              IN  /\ df' = Frame(out.df)
                  /\ filtered' = Frame(out.filtered)
                  /\ screen' = [screen EXCEPT !.year = year, !.month = month]
                  /\ pc' = "filtered"
  /\ UNCHANGED <<file_name, raw, salary, attendance, synonyms, figure, agg_df, view>>

\* lines 630-633 of main: the empty check, then display_key_metrics
DisplayKeyMetrics ==
  /\ pc = "filtered"
  /\ IF empty(filtered.cols)
       THEN screen' = [screen EXCEPT !.message = "no_data"] /\ pc' = "done"
       ELSE screen' = [screen EXCEPT !.metrics = TRUE] /\ pc' = "metrics"
  /\ UNCHANGED <<file_name, raw, df, salary, attendance, synonyms, filtered, figure, agg_df, view>>

\* filtered_df is df itself when setup_period_filters found no period column
Aliased == ~HasCol(df.cols, C_Periodo)

\* display_analysis(filtered_df) with the view `key` selected.  The column
\* mapping is left unticked, except in the Demográfico view, where it may
\* be ticked with a column selected for the age; the comparison button of
\* the Ausentismo view is not pressed.
DisplayAnalysis ==
  /\ pc = "metrics"
  /\ \E key \in analysis_keys :
       /\ salary' = IF key = "Salarial" THEN salary_analysis(filtered.cols) ELSE salary
       /\ attendance' = IF key = "Asistencia" THEN attendance_analysis(filtered.cols)
                        ELSE attendance
       /\ figure' = IF key = "Demografico" THEN demographic_analysis(filtered.cols)
                    ELSE IF key = "Contratos" THEN contract_analysis(filtered.cols)
                    ELSE IF key = "Ausentismo" THEN absenteeism_analysis(filtered.cols)
                    ELSE figure
       /\ agg_df' = IF key = "Ausentismo" THEN absenteeism_agg(filtered.cols) ELSE agg_df
       /\ \/ /\ key = "Asistencia"
             /\ view' = attendance_table(filtered.cols)
          \/ /\ key = "Demografico"
             /\ \E edad \in mappable(filtered.cols) :
                  view' = demographic_mapping(filtered.cols, edad)
          \/ /\ key # "Asistencia"
             /\ view' = view
       /\ filtered' = IF key = "Asistencia" THEN Frame(attendance_mutation(filtered.cols))
                      ELSE IF key = "Ausentismo" THEN Frame(absenteeism_mutation(filtered.cols))
                      ELSE filtered
       /\ df' = IF Aliased THEN filtered' ELSE df
       /\ screen' = [screen EXCEPT !.analysis = key,
                                   !.message = IF figure'.status = "raised" THEN "error" ELSE @]
  /\ pc' = "done"
  /\ UNCHANGED <<file_name, raw, synonyms>>

NextDashboard ==
  \/ LoadHrData
  \/ SetupPeriodFilters
  \/ DisplayKeyMetrics
  \/ DisplayAnalysis

SpecDashboard == InitDashboard /\ [][NextDashboard]_vars

(***************************************************************************)
(* The absenteeism analysis: a table with contract start dates and absence *)
(* columns is loaded, aggregated by period, and two periods of the         *)
(* aggregated table are compared.                                          *)
(***************************************************************************)
AbsenceDates ==
  {Str(<<"1","5","/","0","3","/","2","0","2","4">>), Str(<<"0","1","/","1","2","/","2","0","2","3">>),
   Null}

AbsenceDayValues == {Num(0), Num(2), Null}

\* a start date and the days absent in every row; a second absence column is
\* left out, holds 0, or holds 3 in the first row and 0 below
AbsenceTables ==
  UNION {{<<ColumnOf(H_Inicio, [r \in 1..n |-> row[r][1]]),
            ColumnOf(H_Attendance[1], [r \in 1..n |-> row[r][2]])>>
            \o (IF second = "none" THEN <<>>
                ELSE <<ColumnOf(H_Attendance[2],
                                [r \in 1..n |-> IF second = "first" /\ r = 1 THEN Num(3) ELSE Num(0)])>>)
            : row \in [1..n -> AbsenceDates \X AbsenceDayValues],
              second \in {"none", "zero", "first"}} : n \in RowCounts}

AbsenteeismUploads == {Name_csv} \X (AbsenceTables \cup DateTables \cup WorkedTables)

InitAbsenteeism ==
  /\ \E u \in AbsenteeismUploads : file_name = u[1] /\ raw = u[2]
  /\ df = NoneDf
  /\ pc = "uploaded"
  /\ salary = NoFigure
  /\ attendance = NoFigure
  /\ synonyms = STANDARD_COLUMN_SYNONYMS
  /\ filtered = NoneDf
  /\ screen = NoScreen
  /\ figure = NoReport
  /\ agg_df = NoAgg
  /\ view = NoView

\* the periods asked for: two the tables can hold and one they never hold
ComparisonPeriods ==
  {<<"2","0","2","3","1","2">>, <<"2","0","2","4","0","3">>, <<"2","0","2","4","0","1">>}

\* comp_df, comp_fig, comp_text = absenteeism_comparison(agg_df, period1, period2)
AbsenteeismComparison ==
  /\ pc = "reported"
  /\ figure.fn = "absenteeism" /\ figure.status = "ok"
  /\ \E period1, period2 \in ComparisonPeriods :
       view' = absenteeism_comparison(agg_df, period1, period2)
  /\ pc' = "compared"
  /\ UNCHANGED <<file_name, raw, df, salary, attendance, synonyms, filtered, screen, figure,
                 agg_df>>

NextAbsenteeism ==
  \/ LoadHrData
  \/ AbsenteeismAnalysis
  \/ AbsenteeismComparison

SpecAbsenteeism == InitAbsenteeism /\ [][NextAbsenteeism]_vars

(***************************************************************************)
(* show_key_metrics on tables of names and contract classifications.       *)
(***************************************************************************)
NameValues ==
  {Str(<<"A","n","a">>), Str(<<" ","A","n","a"," ">>), Str(<<"L","u","i","s">>), Null}

ClassificationValues ==
  {Str(<<"P","l","a","n","t","a"," ">>), Str(T_temporada), Str(<<"P","a","r","t"," ","T","i","m","e">>),
   Str(<<"o","t","r","o">>)}

KeyMetricsTables ==
  {<<ColumnOf(H_NombreCompleto, [r \in 1..Len(rows) |-> rows[r][1]]),
     ColumnOf(H_ClasificacionContrato, [r \in 1..Len(rows) |-> rows[r][2]])>>
     : rows \in UNION {[1..n -> NameValues \X ClassificationValues] : n \in RowCounts}}
    \cup OneColumnTables(H_NombreCompleto, NameValues)
    \cup OneColumnTables(H_ClasificacionContrato, ClassificationValues)

InitKeyMetrics ==
  /\ raw \in KeyMetricsTables
  /\ df = Frame(raw)
  /\ file_name = Name_csv
  /\ pc = "table"
  /\ salary = NoFigure
  /\ attendance = NoFigure
  /\ synonyms = STANDARD_COLUMN_SYNONYMS
  /\ filtered = NoneDf
  /\ screen = NoScreen
  /\ figure = NoReport
  /\ agg_df = NoAgg
  /\ view = NoView

\* show_key_metrics(df)
ShowKeyMetrics ==
  /\ pc = "table"
  /\ view' = show_key_metrics(df.cols)
  /\ df' = Frame(key_metrics_mutation(df.cols))
  /\ pc' = "shown"
  /\ UNCHANGED <<file_name, raw, salary, attendance, synonyms, filtered, screen, figure, agg_df>>

NextKeyMetrics == ShowKeyMetrics

SpecKeyMetrics == InitKeyMetrics /\ [][NextKeyMetrics]_vars

(***************************************************************************)
(* The pages of the 'Datos Procesados' view, for a displayed table of up   *)
(* to MaxDisplayed rows.                                                   *)
(***************************************************************************)
MaxDisplayed == 101

InitPagination ==
  /\ \E len \in 0..MaxDisplayed : view = [kind |-> "datos", len |-> len]
  /\ raw = <<>>
  /\ df = NoneDf
  /\ file_name = Name_csv
  /\ pc = "datos"
  /\ salary = NoFigure
  /\ attendance = NoFigure
  /\ synonyms = STANDARD_COLUMN_SYNONYMS
  /\ filtered = NoneDf
  /\ screen = NoScreen
  /\ figure = NoReport
  /\ agg_df = NoAgg

\* lines 205-208: a page size is chosen, the slider offers 1..total_pages
\* and the rows of the chosen page are shown
DatosProcesados ==
  /\ pc = "datos"
  /\ \E page_size \in page_sizes :
       \E page \in 1..total_pages(view.len, page_size) :
         view' = [kind |-> "page", len |-> view.len, page_size |-> page_size,
                  total_pages |-> total_pages(view.len, page_size), page |-> page,
                  shown |-> page_rows(view.len, page_size, page)]
  /\ pc' = "paged"
  /\ UNCHANGED <<file_name, raw, df, salary, attendance, synonyms, filtered, screen, figure, agg_df>>

NextPagination == DatosProcesados

SpecPagination == InitPagination /\ [][NextPagination]_vars
(***************************************************************************)
(* The properties of the specification, stated apart from the code above.  *)
(***************************************************************************)
AccentedLetters ==
  <<"a'","e'","i'","o'","u'","n~","u:","A'","E'","I'","O'","U'","N~","U:">>

PlainLetters == <<"a","e","i","o","u","n","u","a","e","i","o","u","n","u">>

\* a character without case and without accent; a lone accent is no character
FoldChar(c) ==
  IF c \in CombiningMarks THEN <<>>
  ELSE IF InSeq(c, AccentedLetters)
    THEN <<PlainLetters[CHOOSE i \in 1..Len(AccentedLetters) : AccentedLetters[i] = c]>>
  ELSE IF InSeq(c, UpperAscii)
    THEN <<LowerAscii[CHOOSE i \in 1..Len(UpperAscii) : UpperAscii[i] = c]>>
  ELSE <<c>>

fold == [c \in Alphabet |-> FoldChar(c)]

\* the text from its first to its last character that is no blank
RECURSIVE Trimmed(_)
Trimmed(s) ==
  IF s = <<>> THEN s
  ELSE IF Head(s) = " " THEN Trimmed(Tail(s))
  ELSE IF s[Len(s)] = " " THEN Trimmed(SubSeq(s, 1, Len(s) - 1))
  ELSE s

\* a header without its case, its accents and the blanks around it
Skeleton(s) ==
  LET t == Trimmed(s) IN Flatten([i \in 1..Len(t) |-> fold[t[i]]])

Attributes == 1..Len(STANDARD_COLUMN_SYNONYMS)

CanonicalNames == {STANDARD_COLUMN_SYNONYMS[a].standard : a \in Attributes}

synonym_skeletons ==
  [a \in Attributes |->
     {Skeleton(STANDARD_COLUMN_SYNONYMS[a].synonyms[j])
        : j \in 1..Len(STANDARD_COLUMN_SYNONYMS[a].synonyms)}]

\* the attributes the header is a synonym of
SynonymAttributes(h) == LET sk == Skeleton(h) IN {a \in Attributes : sk \in synonym_skeletons[a]}

\* the canonical attribute a header resolves to; <<>> when it resolves to none
ResolvedAttribute(h) == IF new_column(h) = h THEN <<>> ELSE new_column(h)

RawCols == 1..Len(raw)

Loaded == pc \in {"loaded", "reapplied"}

\* C1: every input column whose normalized name equals a normalized synonym
\* of attribute A comes out of standardize_column_names as a column named A,
\* at its place, with exactly its values in their order
C1_SynonymColumnRenamed ==
  pc # "uploaded" =>
    LET out == standardize_column_names(raw) IN
    /\ Len(out) = Len(raw)
    /\ \A i \in RawCols : \A a \in SynonymAttributes(raw[i].name) :
         /\ out[i].name = STANDARD_COLUMN_SYNONYMS[a].standard
         /\ out[i].vals = raw[i].vals
         /\ (Loaded => HasCol(df.cols, STANDARD_COLUMN_SYNONYMS[a].standard))

H_SEXO_padded == <<" ","S","E","X","O"," ">>

C1_Witness ==
  /\ pc = "loaded"
  /\ \E i \in RawCols :
       /\ raw[i].name = H_SEXO_padded
       /\ standardize_column_names(raw)[i].name = C_Gender
       /\ standardize_column_names(raw)[i].vals = raw[i].vals
       /\ HasCol(df.cols, C_Gender)

H_Genero_accent == <<"G","e'","n","e","r","o">>

H_genero == <<"g","e","n","e","r","o">>

H_GENERO == <<"G","E","N","E","R","O">>

GeneroVariants == {H_Genero_accent, H_genero, H_GENERO}

\* headers i and j of the file that differ only in case, outer blanks or accents
SameSkeleton ==
  LET sk == [i \in RawCols |-> Skeleton(raw[i].name)]
  IN  {p \in RawCols \X RawCols : p[1] < p[2] /\ sk[p[1]] = sk[p[2]]}

\* C2 as stated: headers that differ only in case, outer blanks or accents
\* resolve to the same canonical attribute, and "Genero" in its three
\* spellings resolves to one canonical attribute
C2_Original ==
  pc # "uploaded" =>
    LET res == [i \in RawCols |-> ResolvedAttribute(raw[i].name)] IN
    /\ \A p \in SameSkeleton : res[p[1]] = res[p[2]]
    /\ \A i, j \in RawCols :
         (raw[i].name \in GeneroVariants /\ raw[j].name \in GeneroVariants) =>
           /\ res[i] \in CanonicalNames
           /\ res[i] = res[j]

\* C2 as amended: headers that differ only in case, outer blanks or accents
\* resolve alike, to one canonical attribute or to none; the spellings of
\* "sexo" resolve to Gender, and the spellings of "Genero" match no synonym
\* and keep their own names
C2_VariantsResolveAlike ==
  pc # "uploaded" =>
    LET res == [i \in RawCols |-> ResolvedAttribute(raw[i].name)] IN
    /\ \A p \in SameSkeleton : res[p[1]] = res[p[2]]
    /\ \A i \in RawCols :
         Skeleton(raw[i].name) = <<"s","e","x","o">> => res[i] = C_Gender
    /\ \A i \in RawCols :
         raw[i].name \in GeneroVariants =>
           /\ res[i] = <<>>
           /\ standardize_column_names(raw)[i].name = raw[i].name

C2_Witness ==
  /\ pc = "loaded"
  /\ \E i, j, k \in RawCols :
       /\ raw[i].name = H_Sexo /\ raw[j].name = H_SEXO_padded
       /\ ResolvedAttribute(raw[i].name) = C_Gender
       /\ ResolvedAttribute(raw[j].name) = C_Gender
       /\ raw[k].name = H_Genero_accent
       /\ standardize_column_names(raw)[k].name = H_Genero_accent

\* the name a raw column comes to bear: the attribute its header is a synonym
\* of, else the header itself
BornName(h) ==
  LET m == SynonymAttributes(h)
  IN  IF m = {} THEN h ELSE STANDARD_COLUMN_SYNONYMS[CHOOSE a \in m : TRUE].standard

\* C3: when several raw columns are renamed to one canonical name, the
\* loaded table has exactly one column of that name; it holds the values of
\* the leftmost of them, and the derived columns are computed from it
C3_FirstOccurrenceKept ==
  Loaded =>
    LET born == [i \in RawCols |-> BornName(raw[i].name)] IN
    \A i \in RawCols :
      (born[i] \in CanonicalNames /\ \A j \in 1..(i - 1) : born[j] # born[i]) =>
        LET A == born[i]
            first == raw[i].vals
        IN
        /\ Cardinality({k \in 1..Len(df.cols) : df.cols[k].name = A}) = 1
        /\ A \notin {C_Gender, C_BirthDate, C_ContractStartDate, C_ContractEndDate}
             => Col(df.cols, A) = first
        /\ A = C_Gender => Col(df.cols, A) = map_gender(first)
        /\ A = C_Age => Col(df.cols, C_AgeGroup) = age_group(first)
        /\ A = C_TenureMonths => Col(df.cols, C_TenureYears) = tenure_years(first)
        /\ InSeq(A, cols_to_normalize) => Col(df.cols, Normalized_ \o A) = min_max(first)

H_SubGerencia == <<"S","u","b"," ","G","e","r","e","n","c","i","a">>

H_EdadCorte == <<"E","d","a","d"," ","a","l"," ","c","o","r","t","e"," ","d","e"," ","m","e","s">>

C3_Witness ==
  /\ pc = "loaded"
  /\ \E i, j \in RawCols :
       /\ i < j /\ raw[i].name = H_EdadCorte /\ raw[j].name = H_Edad
       /\ Col(df.cols, C_Age) = raw[i].vals
       /\ age_group(raw[i].vals) # age_group(raw[j].vals)
       /\ Col(df.cols, C_AgeGroup) = age_group(raw[i].vals)
  /\ \E i \in RawCols : raw[i].name = H_SubGerencia
  /\ Cardinality({k \in 1..Len(df.cols) : df.cols[k].name = C_Age}) = 1

\* the names the enrichment gives to columns are synonyms of no attribute,
\* so none of them is renamed when the steps are applied again
enriched_names_fixed ==
  \A A \in CanonicalNames \cup {C_TenureYears, C_AgeGroup, C_TotalLeave, C_VacationDays}
            \cup {Normalized_ \o cols_to_normalize[i] : i \in 1..Len(cols_to_normalize)} :
    new_column(A) = A

\* C4: applying the normalize+enrich steps to a table that is already
\* enriched leaves it as it is: same columns, same order, same values; no
\* column is renamed
C4_ReapplyIsIdentity == [][Reapply => (df' = df /\ enriched_names_fixed)]_vars

C4_Witness ==
  /\ pc = "reapplied"
  /\ HasCol(df.cols, Normalized_ \o C_AbsenceDays)
  /\ \E r \in 1..NRows(df.cols) :
       Col(df.cols, Normalized_ \o C_AbsenceDays)[r] \notin {Num(0), Num(1), Null}
  /\ HasCol(df.cols, C_TotalLeave)


\* x.n / x.d = (v - lo) / (hi - lo), by cross-multiplication
IsScaled(x, v, lo, hi) ==
  x.n * (hi.n * lo.d - lo.n * hi.d) * (v.d * lo.d)
    = (v.n * lo.d - lo.n * v.d) * (hi.d * lo.d) * x.d

InUnitInterval(x) == IsNum(x) /\ 0 <= x.n /\ x.n <= x.d

AttendanceColumns ==
  {C_AbsenceDays, C_SickLeaveDays, C_RegularLeaveDays, C_MaternityLeaveDays,
   C_PermissionDays}

\* C5 as stated: for each attendance column X that is present, Normalized_X
\* is (x - min) / (max - min), within [0,1], in every row when the column is
\* not constant, and 0.0 in every row when all its rows hold one value
C5_Original ==
  Loaded =>
    \A X \in AttendanceColumns :
      HasCol(df.cols, X) =>
        /\ HasCol(df.cols, Normalized_ \o X)
        /\ LET vals == Col(df.cols, X)
               norm == Col(df.cols, Normalized_ \o X)
               rows == 1..Len(vals)
           IN  /\ Len(norm) = Len(vals)
               /\ IF \A r, q \in rows : vals[r] = vals[q]
                    THEN \A r \in rows : norm[r] = Num(0)
                    ELSE \A r \in rows : InUnitInterval(norm[r])

\* C5 as amended: for each attendance column X that is present, with min and
\* max taken over its rows that hold a number: when two of those rows differ,
\* Normalized_X is (x - min) / (max - min), within [0,1], in the rows that
\* hold a number and missing in the others; when those rows hold one single
\* number, Normalized_X is 0.0 in every row, the missing ones too; when no
\* row holds a number, Normalized_X is missing in every row
C5_MinMaxWithMissing ==
  Loaded =>
    \A X \in AttendanceColumns :
      HasCol(df.cols, X) =>
        /\ HasCol(df.cols, Normalized_ \o X)
        /\ LET vals == Col(df.cols, X)
               norm == Col(df.cols, Normalized_ \o X)
               rows == 1..Len(vals)
               held == {vals[r] : r \in {q \in rows : IsNum(vals[q])}}
           IN  /\ Len(norm) = Len(vals)
               /\ held = {} => \A r \in rows : norm[r] = Null
               /\ Cardinality(held) = 1 => \A r \in rows : norm[r] = Num(0)
               /\ Cardinality(held) > 1 =>
                    LET lo == CHOOSE x \in held : \A y \in held : Leq(x, y)
                        hi == CHOOSE x \in held : \A y \in held : Leq(y, x)
                    IN  \A r \in rows :
                          IF IsNum(vals[r])
                            THEN /\ InUnitInterval(norm[r])
                                 /\ IsScaled(norm[r], vals[r], lo, hi)
                            ELSE norm[r] = Null

C5_Witness ==
  /\ Loaded
  /\ NRows(df.cols) = 3
  /\ HasCol(df.cols, C_RegularLeaveDays)
  /\ Col(df.cols, C_RegularLeaveDays) = <<Num(2), Num(4), Num(6)>>
  /\ Col(df.cols, Normalized_ \o C_RegularLeaveDays) = <<Num(0), Rat(1, 2), Num(1)>>
  /\ HasCol(df.cols, C_MaternityLeaveDays)
  /\ Col(df.cols, C_MaternityLeaveDays) = <<Num(4), Num(4), Num(4)>>
  /\ Col(df.cols, Normalized_ \o C_MaternityLeaveDays) = <<Num(0), Num(0), Num(0)>>
  /\ HasCol(df.cols, C_SickLeaveDays)
  /\ Col(df.cols, C_SickLeaveDays) = <<Null, Num(8), Num(8)>>
  /\ Col(df.cols, Normalized_ \o C_SickLeaveDays) = <<Num(0), Num(0), Num(0)>>
  /\ HasCol(df.cols, C_PermissionDays)
  /\ Col(df.cols, C_PermissionDays) = <<Null, Null, Null>>
  /\ Col(df.cols, Normalized_ \o C_PermissionDays) = <<Null, Null, Null>>

\* the bucket of an age by the half-open intervals [18,25), [25,35), [35,45),
\* [45,55), [55,65), [65,100); missing for any other age and for no age
AgeBucket(c) ==
  IF ~IsNum(c) THEN Null
  ELSE IF 18 * c.d <= c.n /\ c.n < 25 * c.d THEN Str(<<"1","8","-","2","4">>)
  ELSE IF 25 * c.d <= c.n /\ c.n < 35 * c.d THEN Str(<<"2","5","-","3","4">>)
  ELSE IF 35 * c.d <= c.n /\ c.n < 45 * c.d THEN Str(<<"3","5","-","4","4">>)
  ELSE IF 45 * c.d <= c.n /\ c.n < 55 * c.d THEN Str(<<"4","5","-","5","4">>)
  ELSE IF 55 * c.d <= c.n /\ c.n < 65 * c.d THEN Str(<<"5","5","-","6","4">>)
  ELSE IF 65 * c.d <= c.n /\ c.n < 100 * c.d THEN Str(<<"6","5","+">>)
  ELSE Null

Supported(fname) ==
  EndsWith(fname, Ext_csv) \/ EndsWith(fname, Ext_xlsx) \/ EndsWith(fname, Ext_xls)

\* C6: AgeGroup is, row by row, the bucket of Age by the half-open intervals
\* [18,25) "18-24", [25,35) "25-34", ..., [65,100) "65+", and missing for an
\* age below 18, of 100 or more, or missing; such ages do not fail the load,
\* which fails only on an unsupported file or on a cell that is a text
C6_AgeBuckets ==
  /\ Loaded /\ HasCol(df.cols, C_Age) =>
       /\ HasCol(df.cols, C_AgeGroup)
       /\ LET age == Col(df.cols, C_Age)
              grp == Col(df.cols, C_AgeGroup)
          IN  /\ Len(grp) = Len(age)
              /\ \A r \in 1..Len(age) : grp[r] = AgeBucket(age[r])
  /\ pc = "failed" =>
       \/ ~Supported(file_name)
       \/ \E i \in RawCols : \E r \in 1..Len(raw[i].vals) : IsStr(raw[i].vals[r])

C6_Witness ==
  /\ pc = "loaded"
  /\ Len(raw) = 1 /\ raw[1].name = H_Edad
  /\ Col(df.cols, C_Age) = <<Num(25), Num(100), Num(30)>>
  /\ Col(df.cols, C_AgeGroup)
       = <<Str(<<"2","5","-","3","4">>), Null, Str(<<"2","5","-","3","4">>)>>

\* the band of a salary by the right-open bands [0,500k), [500k,1M),
\* [1M,1.5M), [1.5M,2M), [2M,3M), [3M,+inf)
RightOpenBand(c) ==
  IF ~IsNum(c) \/ c.n < 0 THEN Null
  ELSE IF c.n < 500000 * c.d THEN Str(<<"<","5","0","0","k">>)
  ELSE IF c.n < 1000000 * c.d THEN Str(<<"5","0","0","k","-","1","M">>)
  ELSE IF c.n < 1500000 * c.d THEN Str(<<"1","M","-","1",".","5","M">>)
  ELSE IF c.n < 2000000 * c.d THEN Str(<<"1",".","5","M","-","2","M">>)
  ELSE IF c.n < 3000000 * c.d THEN Str(<<"2","M","-","3","M">>)
  ELSE Str(<<"3","M","+">>)

\* C7: every row behind the salary figure bears the band of its BaseSalary by
\* the right-open bands with boundaries 0, 500k, 1M, 1.5M, 2M, 3M, +infinity:
\* a salary on an inner boundary is in the band that starts there, 0 is in
\* '<500k'
C7_RightOpenBands ==
  salary.status = "ok" =>
    \A i \in 1..Len(salary.rows) :
      salary.rows[i].SalaryBand = RightOpenBand(salary.rows[i].BaseSalary)

\* the source of the Gender column: the leftmost raw column renamed to Gender
GenderSource == raw[Min({i \in RawCols : BornName(raw[i].name) = C_Gender})].vals

\* C8: the Gender column holds "Femenino" where the source holds 'F',
\* "Masculino" where it holds 'M', and the source's own value in every other
\* row, missing values included; the rows are as many and in the same order
C8_GenderMapping ==
  Loaded /\ HasCol(df.cols, C_Gender) =>
    LET src == GenderSource
        out == Col(df.cols, C_Gender)
    IN  /\ Len(out) = Len(src)
        /\ \A r \in 1..Len(src) :
             out[r] = IF src[r] = Str(<<"F">>) THEN Str(<<"F","e","m","e","n","i","n","o">>)
                      ELSE IF src[r] = Str(<<"M">>) THEN Str(<<"M","a","s","c","u","l","i","n","o">>)
                      ELSE src[r]

C8_Witness ==
  /\ pc = "loaded"
  /\ Len(raw) = 1 /\ raw[1].name = H_Sexo
  /\ raw[1].vals = <<Str(<<"F">>), Str(<<"m">>), Null>>
  /\ Col(df.cols, C_Gender) = <<Str(<<"F","e","m","e","n","i","n","o">>), Str(<<"m">>), Null>>

LeaveNames ==
  {C_RegularLeaveDays, C_MaternityLeaveDays, C_SickLeaveDays, C_PermissionDays}

\* the days of leave column A in row r: 0 when the column is absent or the
\* cell holds no number
LeaveDays(A, r) ==
  IF HasCol(df.cols, A) /\ IsNum(Col(df.cols, A)[r]) THEN Col(df.cols, A)[r].n ELSE 0

\* C9: once the attendance analysis has run, TotalLeave is in every row the
\* sum of the leave columns that are present among RegularLeaveDays,
\* MaternityLeaveDays, SickLeaveDays, PermissionDays (a missing cell adds
\* nothing), and 0, not missing, in every row when none of them is present
C9_TotalLeave ==
  attendance.status # "none" =>
    /\ HasCol(df.cols, C_TotalLeave)
    /\ Len(Col(df.cols, C_TotalLeave)) = NRows(df.cols)
    /\ \A r \in 1..NRows(df.cols) :
         Col(df.cols, C_TotalLeave)[r]
           = Num(LeaveDays(C_RegularLeaveDays, r) + LeaveDays(C_MaternityLeaveDays, r)
                 + LeaveDays(C_SickLeaveDays, r) + LeaveDays(C_PermissionDays, r))
    /\ (\A A \in LeaveNames : ~HasCol(df.cols, A)) =>
         \A r \in 1..NRows(df.cols) : Col(df.cols, C_TotalLeave)[r] = Num(0)

C9_Witness ==
  /\ attendance.status # "none"
  /\ \A A \in LeaveNames : HasCol(df.cols, A)
  /\ NRows(df.cols) = 3
  /\ Col(df.cols, C_RegularLeaveDays) = <<Num(2), Num(4), Num(6)>>
  /\ Col(df.cols, C_MaternityLeaveDays) = <<Num(4), Num(4), Num(4)>>
  /\ Col(df.cols, C_SickLeaveDays) = <<Null, Num(8), Num(8)>>
  /\ Col(df.cols, C_PermissionDays) = <<Num(16), Num(16), Num(16)>>
  /\ Col(df.cols, C_TotalLeave) = <<Num(22), Num(32), Num(34)>>

\* C10: TenureYears is TenureMonths / 12 in every row (missing where
\* TenureMonths is missing) when the table has a TenureMonths column, and the
\* table has no TenureYears column when the input has no TenureMonths column
C10_TenureYears ==
  Loaded =>
    /\ HasCol(df.cols, C_TenureMonths) =>
         /\ HasCol(df.cols, C_TenureYears)
         /\ LET months == Col(df.cols, C_TenureMonths)
                years == Col(df.cols, C_TenureYears)
            IN  /\ Len(years) = Len(months)
                /\ \A r \in 1..Len(months) :
                     IF IsNum(months[r])
                       THEN IsNum(years[r]) /\ years[r].n * 12 * months[r].d = months[r].n * years[r].d
                       ELSE years[r] = Null
    /\ (\A i \in RawCols : BornName(raw[i].name) # C_TenureMonths) =>
         /\ ~HasCol(df.cols, C_TenureMonths)
         /\ ~HasCol(df.cols, C_TenureYears)

C10_Witness ==
  /\ pc = "loaded"
  /\ Len(raw) = 1 /\ raw[1].name = H_Antiguedad
  /\ Col(df.cols, C_TenureMonths) = <<Num(30), Num(6), Null>>
  /\ Col(df.cols, C_TenureYears) = <<Rat(5, 2), Rat(1, 2), Null>>

(***************************************************************************)
(* The end-to-end scenario, unmatched columns, the order of the synonym    *)
(* table, and the handling of errors.                                      *)
(***************************************************************************)
\* the file holds the employee of the scenario: 'F', 30 years, 600000
IsScenario ==
  /\ Len(raw) >= 3
  /\ SubSeq(raw, 1, 3) = ScenarioRow

ScenarioFields ==
  /\ Col(df.cols, C_Gender) = <<Str(<<"F","e","m","e","n","i","n","o">>)>>
  /\ Col(df.cols, C_Age) = <<Num(30)>>
  /\ Col(df.cols, C_AgeGroup) = <<Str(<<"2","5","-","3","4">>)>>
  /\ Col(df.cols, C_BaseSalary) = <<Num(600000)>>

C12_UnmatchedColumnKept ==
  pc # "uploaded" =>
    LET out == standardize_column_names(raw) IN
    /\ Len(out) = Len(raw)
    /\ \A i \in RawCols :
         SynonymAttributes(raw[i].name) = {} =>
           /\ out[i] = raw[i]
           /\ Loaded =>
                /\ HasCol(df.cols, raw[i].name)
                /\ raw[i].name # C_Faena => Col(df.cols, raw[i].name) = raw[i].vals

C12_Witness ==
  /\ pc = "loaded"
  /\ \E i, j \in RawCols :
       /\ raw[i].name = H_Genero_accent
       /\ standardize_column_names(raw)[i] = raw[i]
       /\ Col(df.cols, H_Genero_accent) = raw[i].vals
       /\ raw[j].name = H_Sexo
       /\ standardize_column_names(raw)[j].name = C_Gender

\* the attributes of the table in force that the header is a synonym of
TableMatches(h) ==
  {a \in 1..Len(synonyms) :
     \E j \in 1..Len(synonyms[a].synonyms) : Skeleton(synonyms[a].synonyms[j]) = Skeleton(h)}

\* C13: for each raw column the attributes are tried in the order of the
\* synonym table and the first one whose synonyms, normalized, contain the
\* normalized column name gives the name; no later attribute overrides it,
\* and a column no attribute matches keeps its name.  The renaming by the
\* module's own table is the same loop.
C13_FirstMatchWins ==
  pc = "standardized" =>
    /\ Len(df.cols) = Len(raw)
    /\ \A i \in RawCols :
         LET m == TableMatches(raw[i].name) IN
           /\ m = {} => df.cols[i].name = raw[i].name
           /\ \A a \in m : (\A b \in m : a <= b) => df.cols[i].name = synonyms[a].standard
    /\ synonyms = STANDARD_COLUMN_SYNONYMS => df.cols = standardize_column_names(raw)

\* a header two attributes list as a synonym got the name of the first
C13_Witness ==
  /\ pc = "standardized"
  /\ Len(synonyms) = 3
  /\ TableMatches(raw[1].name) = {2, 3}
  /\ df.cols[1].name = synonyms[2].standard
  /\ raw[1].name = <<" ","E","D","A","D"," ">>

\* the normalized synonyms of an attribute, as the code normalizes them
NormalizedSynonyms(a) == {synonyms_normalized[a][j] : j \in 1..Len(synonyms_normalized[a])}

\* no two attributes of the table share a normalized synonym
PairwiseDisjoint ==
  \A a, b \in Attributes :
    a # b => /\ NormalizedSynonyms(a) \cap NormalizedSynonyms(b) = {}
             /\ synonym_skeletons[a] \cap synonym_skeletons[b] = {}

\* C14: in STANDARD_COLUMN_SYNONYMS the synonym sets of two distinct
\* attributes are disjoint after normalization, so that every raw column
\* name resolves to at most one attribute whatever the order of iteration
C14_SynonymSetsDisjoint ==
  /\ PairwiseDisjoint
  /\ pc # "uploaded" =>
       \A i \in RawCols :
         LET m == Matches(normalize_string(raw[i].name)) IN
           /\ Cardinality(m) <= 1
           /\ \A a \in m : new_column(raw[i].name) = STANDARD_COLUMN_SYNONYMS[a].standard

\* a loaded header that is a synonym of exactly one attribute
C14_Witness ==
  /\ pc = "loaded"
  /\ \E i \in RawCols :
       /\ raw[i].name = <<" ","S","E","X","O"," ">>
       /\ Cardinality(Matches(normalize_string(raw[i].name))) = 1
       /\ df.cols[i].name = C_Gender

\* a call of one of the reporting functions on the loaded table
ReportingCall ==
  \/ DemographicAnalysis
  \/ ContractAnalysis
  \/ SalaryAnalysis
  \/ AttendanceAnalysis
  \/ AbsenteeismAnalysis

\* C15: every reporting function is a read-only consumer: after it returns,
\* the table passed in has exactly the columns and values it had before
C15_ReportingReadOnly == [][ReportingCall => df' = df]_vars

\* C16: an unparseable scalar value (a bad date, a text in a numeric
\* column) never makes the load fail: load_hr_data on a file of a supported
\* name returns a table
C16_UnparseableNeverFails == [][LoadHrData /\ Supported(file_name) => ~df'.none]_vars

\* C17: for a file name without a recognized extension load_hr_data gives no
\* table and raises nothing; the dashboard shows an error message and
\* neither key metrics nor any analysis for that load attempt
C17_UnsupportedExtension ==
  ~Supported(file_name) =>
    /\ df = NoneDf
    /\ filtered = NoneDf
    /\ pc \in {"uploaded", "failed", "done"}
    /\ ~screen.metrics
    /\ screen.analysis = "none"
    /\ salary = NoFigure /\ attendance = NoFigure /\ figure = NoReport
    /\ screen.message = IF pc = "done" THEN "error" ELSE "none"

\* the run on a .txt file has ended with the error message
C17_Witness ==
  /\ file_name = <<"d",".","t","x","t">>
  /\ pc = "done"
  /\ df = NoneDf
  /\ screen.message = "error"
  /\ ~screen.metrics

\* the raw table has a column that comes to bear the name
Present(name) == \E i \in RawCols : BornName(raw[i].name) = name

\* the columns load_hr_data does arithmetic on
ArithmeticColumns == {C_Age, C_TenureMonths} \cup AttendanceColumns

\* C18: the absence of an optional source column is never an error in
\* load_hr_data: the load succeeds, the derived column of a missing source
\* is absent, and the derived columns of the sources that are there are
\* computed; a load fails only on an unsupported file name or on a text in
\* a column that is there
C18_MissingOptionalColumn ==
  /\ pc = "loaded" /\ attendance = NoFigure /\ figure = NoReport =>
       /\ HasCol(df.cols, C_TenureYears) <=> Present(C_TenureMonths)
       /\ HasCol(df.cols, C_AgeGroup) <=> Present(C_Age)
       /\ \A X \in AttendanceColumns : HasCol(df.cols, Normalized_ \o X) <=> Present(X)
       /\ \A X \in {C_Gender, C_BirthDate, C_ContractStartDate, C_ContractEndDate} :
            HasCol(df.cols, X) <=> Present(X)
       /\ Len(df.cols) >= 1
  /\ pc = "failed" =>
       \/ ~Supported(file_name)
       \/ \E i \in RawCols :
            BornName(raw[i].name) \in ArithmeticColumns /\ HasStr(raw[i].vals)

\* a loaded table that has a gender column only
C18_Witness ==
  /\ pc = "loaded"
  /\ Len(raw) = 1 /\ raw[1].name = H_Sexo /\ raw[1].vals = <<V_F, V_M>>
  /\ df.cols = <<[name |-> C_Gender, vals |-> <<V_Femenino, V_Masculino>>]>>

\* a salary pd.cut can put in a band: a number of 0 or more
Bandable(x) == IsNum(x) /\ x.n >= 0

\* the table has no row with a department and a bandable salary
NoValidSalaryRows(cols) ==
  \/ ~HasCol(cols, C_Department)
  \/ ~HasCol(cols, C_BaseSalary)
  \/ \A r \in 1..NRows(cols) :
       IsNull(Col(cols, C_Department)[r]) \/ ~Bandable(Col(cols, C_BaseSalary)[r])

\* C19: when no valid salary row is left (Department or BaseSalary missing,
\* or every row without a department or with a missing or unbandable
\* salary), salary_analysis returns the error figure; it always returns a
\* figure, so no exception reaches the caller
C19_EmptySalaryIsErrorFigure ==
  [][SalaryAnalysis =>
       /\ NoValidSalaryRows(df.cols) => salary' = ErrorFigure
       /\ salary'.status \in {"ok", "error"}
       /\ salary'.status = "ok" => salary'.rows # <<>>
       /\ df' = df /\ pc' = pc]_vars

\* the error figure for a table whose only row has no salary
C19_Witness ==
  /\ pc = "loaded"
  /\ HasCol(df.cols, C_Department) /\ HasCol(df.cols, C_BaseSalary)
  /\ Col(df.cols, C_BaseSalary) = <<Null>>
  /\ Col(df.cols, C_Department) = <<V_Ops>>
  /\ salary = ErrorFigure

\* row r of the table is in the period selected on screen
InSelection(r) ==
  LET p == Col(df.cols, C_Periodo)[r].s
      n == Len(p)
  IN  /\ screen.year # Todos => n >= 4 /\ <<p[1], p[2], p[3], p[4]>> = screen.year
      /\ screen.month # Todos => n >= 2 /\ <<p[n - 1], p[n]>> = screen.month

\* the period filter has run and its selection matches no row
SelectionMatchesNone ==
  /\ pc \in {"filtered", "metrics", "done"}
  /\ ~df.none
  /\ HasCol(df.cols, C_Periodo)
  /\ \A r \in 1..NRows(df.cols) : ~InSelection(r)

\* C20: when the year/month selection matches no rows, the dashboard
\* reports that there is no data for the selected period and stops the run,
\* without key metrics, without any analysis and without raising
C20_EmptySelection ==
  SelectionMatchesNone =>
    /\ ~filtered.none /\ NRows(filtered.cols) = 0
    /\ pc \in {"filtered", "done"}
    /\ screen.message = IF pc = "done" THEN "no_data" ELSE "none"
    /\ ~screen.metrics
    /\ screen.analysis = "none"
    /\ salary = NoFigure /\ attendance = NoFigure /\ figure = NoReport

\* year 2024 and month 12 selected on a table of March 2024 and December 2023
C20_Witness ==
  /\ pc = "done"
  /\ screen.year = <<"2","0","2","4">> /\ screen.month = <<"1","2">>
  /\ NRows(df.cols) = 2
  /\ SelectionMatchesNone
  /\ screen.message = "no_data"
  /\ ~screen.metrics

\* the six decimal digits of a number below 10^6
SixDigits(n) ==
  [i \in 1..6 |-> Digits[((n \div (10 ^ (6 - i))) % 10) + 1]]

\* the period of a contract start: year and month, missing for a missing date
PeriodOf(c) == IF c.k = "date" THEN Str(SixDigits(c.n \div 100)) ELSE Null

\* C21: absenteeism_analysis on a table without 'Período' but with
\* ContractStartDate synthesises the period of each row as the YYYYMM of
\* its contract start date; on a table with neither column it raises a
\* validation error instead of returning a result
C21_PeriodSynthesised ==
  [][AbsenteeismAnalysis /\ ~HasCol(df.cols, C_Periodo) =>
       IF HasCol(df.cols, C_ContractStartDate)
         THEN /\ df'.cols = Append(df.cols, [name |-> C_Periodo, vals |-> Col(df'.cols, C_Periodo)])
              /\ \A r \in 1..NRows(df.cols) :
                   Col(df'.cols, C_Periodo)[r] = PeriodOf(Col(df.cols, C_ContractStartDate)[r])
              /\ figure'.status = "ok" <=> agg_df' # NoAgg
         ELSE /\ figure'.status = "raised"
              /\ agg_df' = NoAgg
              /\ df' = df]_vars

\* the period 202403 synthesised for a contract that starts on 15/03/2024
C21_Witness ==
  /\ pc = "reported"
  /\ figure.fn = "absenteeism"
  /\ raw[1].name = H_Inicio
  /\ raw[1].vals[1] = Str(<<"1","5","/","0","3","/","2","0","2","4">>)
  /\ HasCol(df.cols, C_Periodo)
  /\ Col(df.cols, C_Periodo)[1] = Str(<<"2","0","2","4","0","3">>)

\* the periods of the aggregated table
AggPeriods == {agg_df.rows[i].Periodo : i \in 1..Len(agg_df.rows)}

\* C23: for two periods that both exist in the aggregated table,
\* absenteeism_comparison returns its table, figure and text without
\* raising, also when the total of the first period is 0; it raises a
\* validation error only when a period is absent
C23_ComparisonNeverRaises ==
  pc = "compared" =>
    IF view.period1 \in AggPeriods /\ view.period2 \in AggPeriods
      THEN view.status = "ok" /\ Len(view.rows) = Len(agg_df.cols)
      ELSE view.status = "value_error"

\* the comparison as the code makes it: as stated, except that it raises
\* when the total of the first period is 0
C23_RaisesOnlyOnZeroTotal ==
  pc = "compared" =>
    IF view.period1 \in AggPeriods /\ view.period2 \in AggPeriods
      THEN LET first == CHOOSE i \in 1..Len(agg_df.rows) : agg_df.rows[i].Periodo = view.period1
           IN  IF agg_df.rows[first].TotalAusentismo = Num(0)
                 THEN view.status = "type_error"
                 ELSE view.status = "ok" /\ Len(view.rows) = Len(agg_df.cols)
      ELSE view.status = "value_error"

\* the sum of the cells of a row of the aggregated table
RECURSIVE SumOf(_, _)
SumOf(cells, n) == IF n = 0 THEN Num(0) ELSE Add(SumOf(cells, n - 1), cells[n])

\* row i of the aggregated table has its total and its percentages right
AggRowRight(i) ==
  LET row == agg_df.rows[i]
      k == Len(agg_df.cols)
  IN  /\ row.TotalAusentismo = SumOf(row.days, k)
      /\ \A j \in 1..k :
           /\ IsNum(row.pct[j])
           /\ Mul(row.pct[j], row.TotalAusentismo) = Mul(Num(100), row.days[j])
      /\ SumOf(row.pct, k) = Num(100)

\* C28: in the table absenteeism_analysis returns, for every period
\* TotalAusentismo is the sum of the absence columns present, each
\* percentage is 100 * type / TotalAusentismo, the percentages of a period
\* add up to 100, and they are defined also for a period whose total is 0
C28_PercentagesDefined ==
  agg_df # NoAgg => \A i \in 1..Len(agg_df.rows) : AggRowRight(i)

\* the same for the periods whose total is not 0
C28_PercentagesOfNonZeroTotals ==
  agg_df # NoAgg =>
    \A i \in 1..Len(agg_df.rows) :
      IF agg_df.rows[i].TotalAusentismo # Num(0) THEN AggRowRight(i)
      ELSE \A j \in 1..Len(agg_df.cols) :
             agg_df.rows[i].days[j] = Num(0) /\ agg_df.rows[i].pct[j] = Null

\* the columns load_hr_data returns for the file are the first columns of
\* the table, by name
EnrichedColumns(t) ==
  LET loaded == load_hr_data(file_name, raw) IN
    /\ ~loaded.none /\ ~t.none
    /\ Len(t.cols) >= Len(loaded.cols)
    /\ \A i \in 1..Len(loaded.cols) : t.cols[i].name = loaded.cols[i].name

\* the table is the one load_hr_data returned, but for the period column
\* and the columns appended behind
EnrichedTable(t) ==
  /\ EnrichedColumns(t)
  /\ \A i \in 1..Len(load_hr_data(file_name, raw).cols) :
       t.cols[i].name # C_Periodo => t.cols[i].vals = load_hr_data(file_name, raw).cols[i].vals

\* something was computed from the table or put on screen
AnythingShown ==
  \/ screen.metrics
  \/ screen.analysis # "none"
  \/ salary # NoFigure \/ attendance # NoFigure \/ figure # NoReport
  \/ agg_df # NoAgg \/ view # NoView

\* C22: in every run of the dashboard load_hr_data has returned before the
\* period filter, the key metrics or any analysis runs, and no analysis is
\* run on a table that has not gone through normalization and enrichment
C22_LoadedBeforeAnything ==
  /\ [](AnythingShown => EnrichedTable(df) /\ EnrichedColumns(filtered))
  /\ [][(SetupPeriodFilters \/ DisplayKeyMetrics \/ DisplayAnalysis) =>
          /\ pc # "uploaded"
          /\ df = load_hr_data(file_name, raw) \/ pc # "loaded"
          /\ (DisplayKeyMetrics \/ DisplayAnalysis) =>
               /\ EnrichedTable(df) /\ EnrichedColumns(filtered)
               /\ NRows(filtered.cols) <= NRows(df.cols)]_vars

\* a run that went from the load through the filter and the metrics to the
\* salary view
C22_Witness ==
  /\ pc = "done"
  /\ screen.metrics
  /\ screen.analysis = "Salarial"
  /\ salary.status = "ok"
  /\ EnrichedTable(df)

\* C25: the age group of the demographic column-mapping path is the one
\* load_hr_data assigns, for every age: when the age is mapped to the Age
\* column, the mapped AgeGroup is the AgeGroup column of the table
C25_MappedAgeGroupAgrees ==
  (/\ pc = "done"
   /\ view.kind = "demografico"
   /\ view.edad = C_Age
   /\ HasCol(filtered.cols, C_AgeGroup)) =>
     view.AgeGroup = Col(filtered.cols, C_AgeGroup)

\* the two paths agree on the ages that are no bin edge
C25_AgreesOffTheEdges ==
  (/\ pc = "done"
   /\ view.kind = "demografico"
   /\ view.edad = C_Age
   /\ HasCol(filtered.cols, C_AgeGroup)) =>
     \A r \in 1..NRows(filtered.cols) :
       Col(filtered.cols, C_Age)[r] \notin
           {Num(18), Num(25), Num(35), Num(45), Num(55), Num(65), Num(100)} =>
         view.AgeGroup[r] = Col(filtered.cols, C_AgeGroup)[r]

\* C26: in the Asistencia view, whenever the table has Department,
\* DaysWorked and AbsenceDays, the per-department average table is
\* displayed in that run, also when the file has no VacationDays column
\* (stated for the tables whose two measures hold no text)
C26_AttendanceTableShown ==
  [][(/\ DisplayAnalysis
      /\ screen'.analysis = "Asistencia"
      /\ \A i \in 1..Len(attendance_required) : HasCol(filtered.cols, attendance_required[i])
      /\ ~HasStr(Col(filtered.cols, C_DaysWorked))
      /\ ~HasStr(Col(filtered.cols, C_AbsenceDays))) =>
       view'.shown]_vars

\* the table is displayed exactly when the file has a vacation column too
C26_ShownOnlyWithVacationColumn ==
  [][(/\ DisplayAnalysis
      /\ screen'.analysis = "Asistencia"
      /\ \A i \in 1..Len(attendance_required) : HasCol(filtered.cols, attendance_required[i])
      /\ ~HasStr(Col(filtered.cols, C_DaysWorked))
      /\ ~HasStr(Col(filtered.cols, C_AbsenceDays))) =>
       (view'.shown <=> HasCol(filtered.cols, C_VacationDays))]_vars

\* s[a-1:b] of Python, for 1 <= a
Slice(s, a, b) == SubSeq(s, a, IF b < Len(s) THEN b ELSE Len(s))

\* the rows whose period has the selected year at characters 1-4 and the
\* selected month at characters 5-6
RowsOfPeriod(cols, year, month) ==
  LET p == Col(cols, C_Periodo)
  IN  RowsWhere(NRows(cols),
                {r \in 1..NRows(cols) :
                   /\ year # Todos => Slice(p[r].s, 1, 4) = year
                   /\ month # Todos => Slice(p[r].s, 5, 6) = month}, 1)

\* setup_period_filters has run on a loaded table that has or gets a period
PeriodFiltered ==
  /\ SetupPeriodFilters
  /\ ~df.none
  /\ HasCol(df'.cols, C_Periodo)

\* every period of the table is six characters, or the 'nan' of a missing one
SixCharacterPeriods(cols) ==
  \A r \in 1..NRows(cols) :
    LET p == Col(cols, C_Periodo)[r].s
    IN  Len(p) = 6 \/ p = <<"n","a","n">>

ExactRows ==
  /\ filtered'.cols =
       take_rows(df'.cols, RowsOfPeriod(df'.cols, screen'.year, screen'.month))
  /\ (screen'.year = Todos) # (screen'.month = Todos) => NRows(filtered'.cols) >= 1
  /\ NRows(df'.cols) = NRows(df.cols)

\* C27: setup_period_filters returns exactly the rows whose 'Período' has
\* characters 1-4 equal to the selected year and characters 5-6 equal to the
\* selected month ('Todos' constraining nothing); every option offered,
\* chosen alone, yields at least one row; the table keeps its rows
C27_ExactRows == [][PeriodFiltered => ExactRows]_vars

\* it does for the tables whose periods are six characters or missing
C27_ExactRowsOfSixCharacterPeriods ==
  [][(PeriodFiltered /\ SixCharacterPeriods(df'.cols)) => ExactRows]_vars

\* the rows of the table that salary_analysis counts for department d in
\* band b (0: in any band): d and a salary that falls in a band
Counted(cols, d, b) ==
  {r \in 1..NRows(cols) :
     /\ Col(cols, C_Department)[r] = d
     /\ IF b = 0 THEN ~IsNull(salary_band(Col(cols, C_BaseSalary)[r]))
        ELSE salary_band(Col(cols, C_BaseSalary)[r]) = Str(salary_labels[b])}

\* the departments with at least one row that has a banded salary
CountedDepartments(cols) ==
  {d \in {Col(cols, C_Department)[r] : r \in 1..NRows(cols)} :
     ~IsNull(d) /\ Counted(cols, d, 0) # {}}

\* the entry of df_counts for department d and band b
CountOf(fig, d, b) ==
  CHOOSE e \in fig.counts : e.Department = d /\ e.SalaryBand = Str(salary_labels[b])

RECURSIVE PercSum(_, _, _)
\* the float64 sum of the percentages of department d, bands 1..b in order
PercSum(fig, d, b) ==
  IF b = 0 THEN f64_zero ELSE f64_add(PercSum(fig, d, b - 1), CountOf(fig, d, b).perc)

RECURSIVE CountSum(_, _, _)
CountSum(fig, d, b) ==
  IF b = 0 THEN 0 ELSE CountSum(fig, d, b - 1) + CountOf(fig, d, b).count

\* 100 and 2^-40
f64_hundred == f64_of_int(100)

f64_tolerance == <<0, 0, 0, 1, 0, 0>>

\* |x - 100| <= 2^-40
NearHundred(x) ==
  /\ ~f64_less(f64_plus(x, f64_tolerance, 6, 0), f64_hundred, 1)
  /\ ~f64_less(f64_plus(f64_hundred, f64_tolerance, 6, 0), x, 1)

\* salary_analysis has drawn its chart from the table
SalaryCharted == SalaryAnalysis /\ salary'.status = "ok"

\* the counts and percentages are those of the rows with a department and a
\* banded salary, one entry per such department and band
CountsOfValidRows ==
  /\ {e.Department : e \in salary'.counts} = CountedDepartments(df.cols)
  /\ Cardinality(salary'.counts) = 6 * Cardinality(CountedDepartments(df.cols))
  /\ \A d \in CountedDepartments(df.cols) : \A b \in 1..6 :
       /\ CountOf(salary', d, b).count = Cardinality(Counted(df.cols, d, b))
       /\ CountOf(salary', d, b).perc =
            f64_mul(f64_div(Cardinality(Counted(df.cols, d, b)),
                            Cardinality(Counted(df.cols, d, 0))), 100)
       /\ CountSum(salary', d, 6) = Cardinality(Counted(df.cols, d, 0))

\* C29 as stated: for every department with a valid banded salary the six
\* percentages are count / department total * 100 and add up to exactly
\* 100; rows without department or banded salary are in no count
C29_PercentagesAddUpExactly ==
  [][SalaryCharted =>
       /\ CountsOfValidRows
       /\ \A d \in CountedDepartments(df.cols) : PercSum(salary', d, 6) = f64_hundred]_vars

\* C29, amended: the six percentages are the float64 values of
\* count / department total * 100, their counts add up to the department
\* total, and their float64 sum is 100 to within 2^-40
C29_PercentagesAddUp ==
  [][SalaryCharted =>
       /\ CountsOfValidRows
       /\ \A d \in CountedDepartments(df.cols) : NearHundred(PercSum(salary', d, 6))]_vars

\* a department of three rows, one in the first band and two in the second:
\* 33.33333333333333 + 66.66666666666666 = 99.99999999999999
C29_Witness ==
  /\ salary.status = "ok"
  /\ \E d \in CountedDepartments(df.cols) :
       /\ CountOf(salary, d, 1).count = 1
       /\ CountOf(salary, d, 2).count = 2
       /\ PercSum(salary, d, 6) # f64_hundred
       /\ NearHundred(PercSum(salary, d, 6))

\* the trimmed names of the table, a missing name read as 'nan'
Employees ==
  {StrStrip(IF IsNull(c) THEN <<"n","a","n">> ELSE c.s) :
     c \in {Col(raw, H_NombreCompleto)[r] : r \in 1..NRows(raw)}}

\* the lower-cased, trimmed classifications of the records of employee e
RecordsOf(e) ==
  {StrStrip(StrLower(Col(raw, H_ClasificacionContrato)[r].s)) :
     r \in {q \in 1..NRows(raw) :
              LET c == Col(raw, H_NombreCompleto)[q]
              IN  StrStrip(IF IsNull(c) THEN <<"n","a","n">> ELSE c.s) = e}}

\* show_key_metrics has run on a table of names and classifications
Classified ==
  /\ pc = "shown"
  /\ HasCol(raw, H_NombreCompleto)
  /\ HasCol(raw, H_ClasificacionContrato)

\* C24: each distinct trimmed name is classified exactly once: 'planta' if
\* any of its records is 'planta', temporary if some record is 'temporada'
\* or 'part time' and none 'planta'; the two counted groups are disjoint and
\* planta + temporary never exceeds the total
C24_ClassifiedOnce ==
  /\ pc = "shown" =>
       view.empleados_planta + view.empleados_temp <= view.total_empleados
  /\ Classified =>
       /\ DOMAIN view.clasificacion_final = Employees
       /\ view.total_empleados = Cardinality(Employees)
       /\ \A e \in Employees :
            /\ view.clasificacion_final[e] = "planta" <=> T_planta \in RecordsOf(e)
            /\ view.clasificacion_final[e] = "temporal" <=>
                 /\ T_planta \notin RecordsOf(e)
                 /\ T_temporada \in RecordsOf(e) \/ T_part_time \in RecordsOf(e)
       /\ view.empleados_planta =
            Cardinality({e \in Employees : view.clasificacion_final[e] = "planta"})
       /\ view.empleados_temp =
            Cardinality({e \in Employees : view.clasificacion_final[e] = "temporal"})

\* an employee with a 'temporada' and a 'Planta ' record counted as planta
\* only, next to a part-time employee
C24_Witness ==
  /\ Classified
  /\ \E e \in Employees : {T_planta, T_temporada} \subseteq RecordsOf(e)
  /\ \E e \in Employees : RecordsOf(e) = {T_part_time}
  /\ view.empleados_planta = 1
  /\ view.empleados_temp = 1
  /\ view.total_empleados = 2

\* the least k with k * page_size >= len
Ceil(len, page_size) == CHOOSE k \in 0..len : k * page_size >= len /\ (k - 1) * page_size < len

\* the pages that show row r
PagesOf(r) ==
  {p \in 1..view.total_pages : r \in page_rows(view.len, view.page_size, p)}

\* C30: total_pages = max(1, ceil(rows / page_size)); over the pages
\* 1..total_pages every displayed row is on exactly one page, every page
\* has at most page_size rows, and no page is empty but the only page of an
\* empty table
C30_PagesCoverRows ==
  pc = "paged" =>
    /\ view.total_pages =
         IF Ceil(view.len, view.page_size) > 1 THEN Ceil(view.len, view.page_size) ELSE 1
    /\ \A r \in 1..view.len : Cardinality(PagesOf(r)) = 1
    /\ \A p \in 1..view.total_pages :
         /\ Cardinality(page_rows(view.len, view.page_size, p)) <= view.page_size
         /\ page_rows(view.len, view.page_size, p) = {} => view.len = 0 /\ view.total_pages = 1
    /\ view.shown = page_rows(view.len, view.page_size, view.page)

\* the last of the five pages of 45 rows, ten to a page, shows rows 41..45
C30_Witness ==
  /\ pc = "paged"
  /\ view.len = 45 /\ view.page_size = 10
  /\ view.total_pages = 5 /\ view.page = 5
  /\ view.shown = 41..45
====
